---------------------------- MODULE Spec2Model ----------------------------
(***************************************************************************)
(* A model of the incremental compiler: parser (tokens -> AST), code       *)
(* generator (AST -> 32-bit x86 assembly, in Direct/MODE_RTE or            *)
(* Fold/MODE_CTE mode) and the execution of the emitted program up to the  *)
(* exit system call.                                                       *)
(***************************************************************************)
EXTENDS Integers, Sequences, FiniteSets, TLC

(***************************************************************************)
(* 32-bit machine words.  A word is kept as the signed integer it denotes  *)
(* in two's complement (-2^31 .. 2^31-1); every operation works on 16-bit  *)
(* halves so that no intermediate value leaves that range.                 *)
(***************************************************************************)
Half == 256 * 256

Lo(w) == w % Half

HiU(w) == ((w - Lo(w)) \div Half) % Half

Word(hiU, lo) == (IF hiU >= 32768 THEN hiU - Half ELSE hiU) * Half + lo

Add32(a, b) ==
    LET lo == Lo(a) + Lo(b)
        hi == HiU(a) + HiU(b) + (lo \div Half)
    IN  Word(hi % Half, lo % Half)

Sub32(a, b) ==
    LET lo == Lo(a) - Lo(b)
        hi == HiU(a) - HiU(b) + (lo \div Half)
    IN  Word(hi % Half, lo % Half)

\* x * y mod 2^16 and the carry (x * y) div 2^16, for 16-bit x and y
MulLo16(x, y) == ((x * (y % 256)) + ((x * (y \div 256)) % 256) * 256) % Half

MulHi16(x, y) ==
    LET p0 == x * (y % 256)
        p1 == x * (y \div 256)
        t  == p0 + (p1 % 256) * 256
    IN  ((t \div Half) + (p1 \div 256)) % Half

\* the low 32 bits of the product, as imull leaves them
Mul32(a, b) ==
    LET lo == MulLo16(Lo(a), Lo(b))
        hi == (MulHi16(Lo(a), Lo(b)) + MulLo16(HiU(a), Lo(b))
                                    + MulLo16(Lo(a), HiU(b))) % Half
    IN  Word(hi, lo)

Pow2(n) == CASE n = 0 -> 1 [] n = 1 -> 2 [] n = 2 -> 4 [] n = 6 -> 64
             [] n = 8 -> 256 [] OTHER -> 65536

\* sall $n: shift left, the bits shifted out are lost
Shl32(a, n) == Mul32(a, Pow2(n))

\* sarl $n / C's >> on a signed int under gcc: arithmetic shift
Sar32(a, n) == a \div Pow2(n)

\* shrl $n: logical shift, zero filled
Shr32(a, n) ==
    LET p == Pow2(n)
        q == Half \div p
    IN  Word(HiU(a) \div p, (Lo(a) \div p) + (HiU(a) % p) * q)

RECURSIVE And16(_, _, _)
And16(x, y, k) ==
    IF k = 0 THEN 0
    ELSE (IF x % 2 = 1 /\ y % 2 = 1 THEN 1 ELSE 0)
         + 2 * And16(x \div 2, y \div 2, k - 1)

RECURSIVE Or16(_, _, _)
Or16(x, y, k) ==
    IF k = 0 THEN 0
    ELSE (IF x % 2 = 1 \/ y % 2 = 1 THEN 1 ELSE 0)
         + 2 * Or16(x \div 2, y \div 2, k - 1)

And32(a, b) == Word(And16(HiU(a), HiU(b), 16), And16(Lo(a), Lo(b), 16))

Or32(a, b) == Word(Or16(HiU(a), HiU(b), 16), Or16(Lo(a), Lo(b), 16))

\* does the exact result of a C int operation leave the int range?
AddOverflows(a, b) == (a >= 0 /\ b >= 0 /\ Add32(a, b) < 0)
                      \/ (a < 0 /\ b < 0 /\ Add32(a, b) >= 0)

SubOverflows(a, b) == (a >= 0 /\ b < 0 /\ Sub32(a, b) < 0)
                      \/ (a < 0 /\ b >= 0 /\ Sub32(a, b) >= 0)

MaxInt == 32767 * Half + 65535

MinInt == (0 - MaxInt) - 1

Abs(a) == IF a < 0 THEN 0 - a ELSE a

\* the exact product leaves the int range, decided without forming it
MulOverflows(a, b) ==
    IF a = 0 \/ b = 0 THEN FALSE
    ELSE IF a = MinInt \/ b = MinInt THEN ~(a = 1 \/ b = 1)
    ELSE /\ Abs(a) > MaxInt \div Abs(b)
         /\ ~ /\ (a < 0) # (b < 0)
              /\ Mul32(a, b) = MinInt
              /\ Abs(a) - 1 <= MaxInt \div Abs(b)

ShlOverflows(a, n) == a < 0 \/ a > MaxInt \div Pow2(n)

(***************************************************************************)
(* Tokens.  The lexer is consumed through next_token(); a program is the   *)
(* finite sequence of tokens it yields, followed by TOK_EOF for ever.      *)
(***************************************************************************)
Tok(t) == [type |-> t, value |-> 0, char_value |-> 0, identifier |-> ""]

Num(n) == [Tok("TOK_NUMBER") EXCEPT !.value = n]

Chr(c) == [Tok("TOK_CHAR") EXCEPT !.char_value = c]

Id(s) == [Tok("TOK_IDENTIFIER") EXCEPT !.identifier = s]

\* current_token once the lexer has been advanced pos times
Cur(toks, pos) == IF pos <= Len(toks) THEN toks[pos] ELSE Tok("TOK_EOF")

(***************************************************************************)
(* Lexer (lexer.c).  The source text is a sequence of one-character        *)
(* strings.  main() runs the lexer over the whole input first              *)
(* (dump_tokens_to_file), so a lexical error ends the process before the   *)
(* parser starts, and the parser then pulls the same tokens again.         *)
(***************************************************************************)
Upper == <<"A", "B", "C", "D", "E", "F", "G", "H", "I", "J", "K", "L", "M",
           "N", "O", "P", "Q", "R", "S", "T", "U", "V", "W", "X", "Y", "Z">>

Lower == <<"a", "b", "c", "d", "e", "f", "g", "h", "i", "j", "k", "l", "m",
           "n", "o", "p", "q", "r", "s", "t", "u", "v", "w", "x", "y", "z">>

Digits == <<"0", "1", "2", "3", "4", "5", "6", "7", "8", "9">>

Range(seq) == {seq[i] : i \in 1..Len(seq)}

IndexOf(seq, c) == CHOOSE i \in 1..Len(seq) : seq[i] = c

isspace(c) == c \in {" ", "\n", "\t"}

isdigit(c) == c \in Range(Digits)

isalpha(c) == c \in Range(Upper) \cup Range(Lower)

isalnum(c) == isalpha(c) \/ isdigit(c)

\* the character code of c (ASCII), for the characters a source text uses
Ord(c) ==
    CASE c \in Range(Upper) -> 64 + IndexOf(Upper, c)
      [] c \in Range(Lower) -> 96 + IndexOf(Lower, c)
      [] c \in Range(Digits) -> 47 + IndexOf(Digits, c)
      [] c = " " -> 32 [] c = "\n" -> 10 [] c = "\t" -> 9
      [] c = "#" -> 35 [] c = "(" -> 40 [] c = ")" -> 41 [] c = "*" -> 42
      [] c = "+" -> 43 [] c = "-" -> 45 [] c = "/" -> 47 [] c = ";" -> 59
      [] c = "<" -> 60 [] c = "=" -> 61 [] c = ">" -> 62 [] c = "?" -> 63
      [] c = "_" -> 95 [] c = "\\" -> 92
      [] OTHER -> 36

\* the characters an identifier continues with
IdentChar(c) == isalnum(c) \/ c \in {"_", "?", "-", ">"}

InClass(class, c) ==
    CASE class = "space" -> isspace(c)
      [] class = "digit" -> isdigit(c)
      [] class = "alpha" -> isalpha(c)
      [] class = "ident" -> IdentChar(c)

\* the first position at or after pos whose character is not in the class
RECURSIVE SkipWhile(_, _, _)
SkipWhile(input, pos, class) ==
    IF pos <= Len(input) /\ InClass(class, input[pos])
    THEN SkipWhile(input, pos + 1, class)
    ELSE pos

\* num = num * 10 + digit over input[from .. to - 1]
RECURSIVE NumberValue(_, _, _, _)
NumberValue(input, from, to, num) ==
    IF from >= to THEN num
    ELSE NumberValue(input, from + 1, to,
                     num * 10 + (IndexOf(Digits, input[from]) - 1))

\* the characters input[from .. to - 1] joined into one string
RECURSIVE Spelling(_, _, _)
Spelling(input, from, to) ==
    IF from >= to THEN ""
    ELSE input[from] \o Spelling(input, from + 1, to)

Lexed(tok, pos) == [ok |-> TRUE, err |-> "", tok |-> tok, pos |-> pos]

LexError(err, pos) == [ok |-> FALSE, err |-> err, tok |-> Tok("TOK_EOF"), pos |-> pos]

\* the token after "#" at pos - 1
lex_immediate(input, pos) ==
    IF pos > Len(input) THEN LexError("IncompleteImmediate", pos)
    ELSE IF input[pos] \in {"t", "f"}
    THEN IF pos + 1 <= Len(input)
            /\ (isalnum(input[pos + 1]) \/ input[pos + 1] = "_")
         THEN LexError("InvalidImmediate", pos + 1)
         ELSE Lexed(Tok(IF input[pos] = "t" THEN "TOK_TRUE" ELSE "TOK_FALSE"),
                    pos + 1)
    ELSE IF input[pos] = "\\"
    THEN IF pos + 1 > Len(input) THEN LexError("IncompleteCharacter", pos + 1)
         ELSE IF isalpha(input[pos + 1])
         THEN LET e    == SkipWhile(input, pos + 1, "alpha")
                  name == Spelling(input, pos + 1, e)
              IN  IF e - (pos + 1) = 1 THEN Lexed(Chr(Ord(input[pos + 1])), e)
                  ELSE IF name = "space" THEN Lexed(Chr(32), e)
                  ELSE IF name = "newline" THEN Lexed(Chr(10), e)
                  ELSE IF name = "tab" THEN Lexed(Chr(9), e)
                  ELSE LexError("UnknownNamedCharacter", e)
         ELSE Lexed(Chr(Ord(input[pos + 1])), pos + 2)
    ELSE LexError("UnknownImmediate", pos)

SingleChar(c) ==
    CASE c = "+" -> "TOK_PLUS" [] c = "-" -> "TOK_MINUS" [] c = "*" -> "TOK_STAR"
      [] c = "/" -> "TOK_SLASH" [] c = "=" -> "TOK_EQUALS" [] c = "<" -> "TOK_LESS"
      [] c = ">" -> "TOK_GREATER" [] c = "?" -> "TOK_QUESTION"
      [] c = "(" -> "TOK_LPAREN" [] c = ")" -> "TOK_RPAREN"
      [] c = ";" -> "TOK_SEMICOLON" [] OTHER -> "NONE"

\* next_token() with lexer.pos = from - 1 (positions count from 1 here)
next_token(input, from) ==
    LET pos == SkipWhile(input, from, "space")
    IN  IF pos > Len(input) THEN Lexed(Tok("TOK_EOF"), pos)
        ELSE LET c == input[pos]
             IN  IF c = "#" THEN lex_immediate(input, pos + 1)
                 ELSE IF c = "(" /\ pos + 1 <= Len(input) /\ input[pos + 1] = ")"
                 THEN Lexed(Tok("TOK_EMPTY_LIST"), pos + 2)
                 ELSE IF isdigit(c)
                 THEN LET e == SkipWhile(input, pos, "digit")
                      IN  Lexed(Num(NumberValue(input, pos, e, 0)), e)
                 ELSE IF isalpha(c) \/ c = "_"
                 THEN LET e    == SkipWhile(input, pos, "ident")
                          name == Spelling(input, pos, e)
                      IN  IF name = "return" THEN Lexed(Tok("TOK_RETURN"), e)
                          ELSE Lexed(Id(name), e)
                 ELSE IF SingleChar(c) # "NONE"
                 THEN Lexed(Tok(SingleChar(c)), pos + 1)
                 ELSE LexError("UnknownCharacter", pos + 1)

\* one pass of the token loop: the next token is appended, or the loop ends
\* at TOK_EOF or at a lexical error
lex_step(input, s, t) ==
    IF ~t.ok THEN [s EXCEPT !.ok = FALSE, !.err = t.err, !.done = TRUE]
    ELSE IF t.tok.type = "TOK_EOF" THEN [s EXCEPT !.done = TRUE]
    ELSE [s EXCEPT !.toks = Append(@, t.tok), !.pos = t.pos]

\* up to n passes of the token loop from s, halving n so that long inputs
\* are lexed without deep nesting
RECURSIVE lex_steps(_, _, _)
lex_steps(input, s, n) ==
    IF s.done \/ n = 0 THEN s
    ELSE IF n = 1 THEN lex_step(input, s, next_token(input, s.pos))
    ELSE lex_steps(input, lex_steps(input, s, n \div 2), n - (n \div 2))

\* every token up to TOK_EOF, or up to the first lexical error; an input
\* has fewer tokens than characters
Tokenize(input, from) ==
    lex_steps(input,
              [ok |-> TRUE, err |-> "", toks |-> << >>, pos |-> from,
               done |-> FALSE],
              Len(input) + 1)

(***************************************************************************)
(* AST constructors (ast.c).                                               *)
(***************************************************************************)
expr_fixnum(v) == [type |-> "EXPR_FIXNUM", value |-> v]

expr_boolean(v) == [type |-> "EXPR_BOOLEAN", value |-> v]

expr_character(v) == [type |-> "EXPR_CHARACTER", value |-> v]

expr_empty_list == [type |-> "EXPR_EMPTY_LIST"]

expr_unary_prim(op, operand) ==
    [type |-> "EXPR_UNARY_PRIM", op |-> op, operand |-> operand]

expr_binary_prim(op, operand1, operand2) ==
    [type |-> "EXPR_BINARY_PRIM", op |-> op,
     operand1 |-> operand1, operand2 |-> operand2]

expr_variable(name) == [type |-> "EXPR_VARIABLE", name |-> name]

expr_let(name, init, body) ==
    [type |-> "EXPR_LET", name |-> name, init |-> init, body |-> body]

expr_if(test, consequent, alternate) ==
    [type |-> "EXPR_IF", test |-> test,
     consequent |-> consequent, alternate |-> alternate]

expr_cons(car_expr, cdr_expr) ==
    [type |-> "EXPR_CONS", car_expr |-> car_expr, cdr_expr |-> cdr_expr]

expr_car(pair) == [type |-> "EXPR_CAR", pair |-> pair]

expr_cdr(pair) == [type |-> "EXPR_CDR", pair |-> pair]

\* no expression: the parser aborted before returning one
NoExpr == [type |-> "NONE"]

(***************************************************************************)
(* Parser (parser.c).  Every parse operator takes the token sequence and   *)
(* the position of current_token and returns the expression with the new   *)
(* position, or the fatal error the process exits with.                    *)
(***************************************************************************)
Parsed(e, pos) == [ok |-> TRUE, err |-> "", expr |-> e, pos |-> pos]

Fatal(err, pos) == [ok |-> FALSE, err |-> err, expr |-> NoExpr, pos |-> pos]

UnaryNames == {"add1", "sub1", "integer->char", "char->integer", "zero?",
               "null?", "integer?", "boolean?", "char?"}

\* a name table that knows no unary primitive (a faulty variant of
\* try_parse_unary_prim, against which IdentifierCallResolution is tried)
no_unary_prim(name) == "NONE"

\* the primitive a name maps to, "NONE" when the function returns 0
try_parse_unary_prim(name) ==
    CASE name = "add1" -> "PRIM_ADD1"
      [] name = "sub1" -> "PRIM_SUB1"
      [] name = "integer->char" -> "PRIM_INTEGER_TO_CHAR"
      [] name = "char->integer" -> "PRIM_CHAR_TO_INTEGER"
      [] name = "zero?" -> "PRIM_ZERO_P"
      [] name = "null?" -> "PRIM_NULL_P"
      [] name = "integer?" -> "PRIM_INTEGER_P"
      [] name = "boolean?" -> "PRIM_BOOLEAN_P"
      [] name = "char?" -> "PRIM_CHAR_P"
      [] OTHER -> "NONE"

try_parse_binary_prim(name) ==
    CASE name = "+" -> "PRIM_PLUS"
      [] name = "-" -> "PRIM_MINUS"
      [] name = "*" -> "PRIM_MULTIPLY"
      [] name = "=" -> "PRIM_EQUALS"
      [] name = "<" -> "PRIM_LESS"
      [] name = ">" -> "PRIM_GREATER"
      [] name = "<=" -> "PRIM_LESS_EQUAL"
      [] name = ">=" -> "PRIM_GREATER_EQUAL"
      [] name = "char=?" -> "PRIM_CHAR_EQUAL"
      [] name = "char<?" -> "PRIM_CHAR_LESS"
      [] OTHER -> "NONE"

\* expect(type): the position after the token, or the fatal error
expect(toks, pos, type) ==
    IF Cur(toks, pos).type # type
    THEN Fatal("UnexpectedToken", pos)
    ELSE Parsed(NoExpr, pos + 1)

\* the operator tokens that parse_primary reads as a 2-ary call after "("
OperatorCall(type) ==
    CASE type = "TOK_PLUS" -> "PRIM_PLUS"
      [] type = "TOK_MINUS" -> "PRIM_MINUS"
      [] type = "TOK_STAR" -> "PRIM_MULTIPLY"
      [] type = "TOK_EQUALS" -> "PRIM_EQUALS"
      [] type = "TOK_LESS" -> "PRIM_LESS"
      [] type = "TOK_GREATER" -> "PRIM_GREATER"
      [] OTHER -> "NONE"

\* the items of a call form after its head: "E" is one parse_expr(), "VAR"
\* the variable name of a let binding, anything else a token for expect()
BinaryShape == << "E", "E", "TOK_RPAREN" >>

UnaryShape == << "E", "TOK_RPAREN" >>

LetShape == << "TOK_LPAREN", "VAR", "E", "TOK_RPAREN", "E", "TOK_RPAREN" >>

IfShape == << "E", "E", "E", "TOK_RPAREN" >>

Form(kind, op, start, shape) ==
    [kind |-> kind, op |-> op, start |-> start, shape |-> shape]

\* a FormOf that reads "(" followed by an unknown identifier as the start of
\* a grouped expression (a faulty variant of FormOf, against which
\* IdentifierNeverOpensGroup is tried)
FormOf_grouping(toks, pos) ==
    LET n    == Cur(toks, pos)
        name == n.identifier
    IN  IF OperatorCall(n.type) # "NONE"
        THEN Form("binary", OperatorCall(n.type), pos + 1, BinaryShape)
        ELSE IF n.type # "TOK_IDENTIFIER"
        THEN Form("group", "NONE", pos, UnaryShape)
        ELSE IF name = "let" THEN Form("let", "NONE", pos + 1, LetShape)
        ELSE IF name = "if" THEN Form("if", "NONE", pos + 1, IfShape)
        ELSE IF name = "cons" THEN Form("cons", "NONE", pos + 1, BinaryShape)
        ELSE IF name = "car" THEN Form("car", "NONE", pos + 1, UnaryShape)
        ELSE IF name = "cdr" THEN Form("cdr", "NONE", pos + 1, UnaryShape)
        ELSE IF try_parse_unary_prim(name) # "NONE"
        THEN Form("unary", try_parse_unary_prim(name), pos + 1, UnaryShape)
        ELSE IF try_parse_binary_prim(name) # "NONE"
        THEN Form("binary", try_parse_binary_prim(name), pos + 1, BinaryShape)
        ELSE Form("group", "NONE", pos, UnaryShape)

\* the form that "(" opens, decided by the token at pos that follows it:
\* an operator call, an identifier form, or a grouped expression
FormOf(toks, pos) ==
    LET n    == Cur(toks, pos)
        name == n.identifier
    IN  IF OperatorCall(n.type) # "NONE"
        THEN Form("binary", OperatorCall(n.type), pos + 1, BinaryShape)
        ELSE IF n.type # "TOK_IDENTIFIER"
        THEN Form("group", "NONE", pos, UnaryShape)
        ELSE IF name = "let" THEN Form("let", "NONE", pos + 1, LetShape)
        ELSE IF name = "if" THEN Form("if", "NONE", pos + 1, IfShape)
        ELSE IF name = "cons" THEN Form("cons", "NONE", pos + 1, BinaryShape)
        ELSE IF name = "car" THEN Form("car", "NONE", pos + 1, UnaryShape)
        ELSE IF name = "cdr" THEN Form("cdr", "NONE", pos + 1, UnaryShape)
        ELSE IF try_parse_unary_prim(name) # "NONE"
        THEN Form("unary", try_parse_unary_prim(name), pos + 1, UnaryShape)
        ELSE IF try_parse_binary_prim(name) # "NONE"
        THEN Form("binary", try_parse_binary_prim(name), pos + 1, BinaryShape)
        ELSE Form("unknown", "NONE", pos + 1, << >>)

\* the node a form returns once its items are parsed; args are the
\* expressions of its "E" items, var the name of a let binding
BuildForm(form, args, var) ==
    CASE form.kind = "binary" -> expr_binary_prim(form.op, args[1], args[2])
      [] form.kind = "unary" -> expr_unary_prim(form.op, args[1])
      [] form.kind = "let" -> expr_let(var, args[1], args[2])
      [] form.kind = "if" -> expr_if(args[1], args[2], args[3])
      [] form.kind = "cons" -> expr_cons(args[1], args[2])
      [] form.kind = "car" -> expr_car(args[1])
      [] form.kind = "cdr" -> expr_cdr(args[1])
      [] form.kind = "group" -> args[1]

RECURSIVE parse_expr(_, _)
RECURSIVE parse_expr_loop(_, _, _)
RECURSIVE parse_term(_, _)
RECURSIVE parse_term_loop(_, _, _)
RECURSIVE parse_primary(_, _)
RECURSIVE parse_items(_, _, _)

\* the expression e in front of the expressions of the remaining items
Prepend(e, r) == IF ~r.ok THEN r ELSE [r EXCEPT !.expr = << e >> \o @]

\* a is the result of the parse_expr() of an "E" item; the rest follow it
items_after(toks, a, rest) ==
    IF ~a.ok THEN a ELSE Prepend(a.expr, parse_items(toks, a.pos, rest))

\* the items of a form in order; expr is the list of the parsed expressions
parse_items(toks, pos, shape) ==
    IF shape = << >> THEN [Parsed(NoExpr, pos) EXCEPT !.expr = << >>]
    ELSE IF Head(shape) = "E"
    THEN items_after(toks, parse_expr(toks, pos), Tail(shape))
    ELSE IF Head(shape) = "VAR" /\ Cur(toks, pos).type # "TOK_IDENTIFIER"
    THEN Fatal("ExpectedVariableName", pos)
    ELSE IF Head(shape) # "VAR" /\ ~expect(toks, pos, Head(shape)).ok
    THEN expect(toks, pos, Head(shape))
    ELSE parse_items(toks, pos + 1, Tail(shape))

\* the node of a form whose items parsed to r
finish_form(toks, form, r) ==
    IF ~r.ok THEN r
    ELSE Parsed(BuildForm(form, r.expr, Cur(toks, form.start + 1).identifier),
                r.pos)

\* "(" followed by the form it opens
primary_form(toks, form) ==
    IF form.kind = "unknown" THEN Fatal("UnknownPrimitive", form.start)
    ELSE finish_form(toks, form, parse_items(toks, form.start, form.shape))

\* a literal or a variable reference: one token
primary_token(t, pos) ==
    CASE t.type = "TOK_NUMBER" -> Parsed(expr_fixnum(t.value), pos + 1)
      [] t.type = "TOK_TRUE" -> Parsed(expr_boolean(1), pos + 1)
      [] t.type = "TOK_FALSE" -> Parsed(expr_boolean(0), pos + 1)
      [] t.type = "TOK_CHAR" -> Parsed(expr_character(t.char_value), pos + 1)
      [] t.type = "TOK_EMPTY_LIST" -> Parsed(expr_empty_list, pos + 1)
      [] t.type = "TOK_IDENTIFIER" ->
            Parsed(expr_variable(t.identifier), pos + 1)
      [] OTHER -> Fatal("UnexpectedPrimary", pos)

parse_primary(toks, pos) ==
    IF Cur(toks, pos).type = "TOK_LPAREN"
    THEN primary_form(toks, FormOf(toks, pos + 1))
    ELSE primary_token(Cur(toks, pos), pos)

\* a loop that never consumes an operator (a faulty variant of
\* parse_term_loop, against which InfixPrecedence is tried)
term_done(toks, left, pos) == Parsed(left, pos)

\* the same fault in parse_expr_loop, against which LetBodyIsInfix is tried
expr_done(toks, left, pos) == Parsed(left, pos)

\* left = expr_binary_prim(PRIM_MULTIPLY, left, right), and the loop again
term_more(toks, left, right) ==
    IF ~right.ok THEN right
    ELSE parse_term_loop(toks,
             expr_binary_prim("PRIM_MULTIPLY", left, right.expr), right.pos)

\* while (current_token.type == TOK_STAR) ...
parse_term_loop(toks, left, pos) ==
    IF Cur(toks, pos).type = "TOK_STAR"
    THEN term_more(toks, left, parse_primary(toks, pos + 1))
    ELSE Parsed(left, pos)

term_first(toks, left) ==
    IF ~left.ok THEN left ELSE parse_term_loop(toks, left.expr, left.pos)

parse_term(toks, pos) == term_first(toks, parse_primary(toks, pos))

\* left = expr_binary_prim(PRIM_PLUS or PRIM_MINUS, left, right), and the
\* loop again
expr_more(toks, op, left, right) ==
    IF ~right.ok THEN right
    ELSE parse_expr_loop(toks,
             expr_binary_prim(IF op = "TOK_PLUS" THEN "PRIM_PLUS"
                              ELSE "PRIM_MINUS", left, right.expr),
             right.pos)

\* while (current_token.type == TOK_PLUS || ... == TOK_MINUS) ...
parse_expr_loop(toks, left, pos) ==
    IF Cur(toks, pos).type \in {"TOK_PLUS", "TOK_MINUS"}
    THEN expr_more(toks, Cur(toks, pos).type, left, parse_term(toks, pos + 1))
    ELSE Parsed(left, pos)

expr_first(toks, left) ==
    IF ~left.ok THEN left ELSE parse_expr_loop(toks, left.expr, left.pos)

parse_expr(toks, pos) == expr_first(toks, parse_term(toks, pos))

\* the position after an optional token of the given type
skip_optional(toks, pos, type) ==
    IF Cur(toks, pos).type = type THEN pos + 1 ELSE pos

\* an end of program that accepts whatever follows the expression (a faulty
\* variant of program_end, against which ProgramWrapping is tried)
program_end_lenient(toks, result) == result

\* after result = parse_expr(): the optional ";" and the end of input
program_end(toks, result) ==
    IF ~result.ok THEN result
    ELSE IF Cur(toks, skip_optional(toks, result.pos, "TOK_SEMICOLON")).type
            # "TOK_EOF"
    THEN Fatal("ExpectedEndOfInput",
               skip_optional(toks, result.pos, "TOK_SEMICOLON"))
    ELSE Parsed(result.expr, skip_optional(toks, result.pos, "TOK_SEMICOLON"))

parse_program(toks) ==
    program_end(toks, parse_expr(toks, skip_optional(toks, 1, "TOK_RETURN")))

(***************************************************************************)
(* Tagging scheme (tags.h) and the evaluation modes (codegen.h).           *)
(***************************************************************************)
fixnum_shift == 2

char_tag == 15

bool_tag == 31

empty_list_tag == 47

MODE_RTE == "MODE_RTE"

MODE_CTE == "MODE_CTE"

\* a C int result: the value the machine computes, and whether computing it
\* was undefined behaviour in C (signed overflow, shift of a negative value)
CInt(v, ub) == [v |-> v, ub |-> ub]

tag_fixnum(value) ==
    CInt(Shl32(value, fixnum_shift), ShlOverflows(value, fixnum_shift))

\* (cond) ? (bool_tag | 0x20) : bool_tag
CBool(cond) == IF cond THEN Or32(bool_tag, 32) ELSE bool_tag

eval_unary(op, operand) ==
    CASE op = "PRIM_ADD1" -> CInt(Add32(operand, 4), AddOverflows(operand, 4))
      [] op = "PRIM_SUB1" -> CInt(Sub32(operand, 4), SubOverflows(operand, 4))
      [] op = "PRIM_ZERO_P" -> CInt(CBool(operand = 0), FALSE)
      [] op = "PRIM_INTEGER_P" -> CInt(CBool(And32(operand, 3) = 0), FALSE)
      [] op = "PRIM_BOOLEAN_P" -> CInt(CBool(And32(operand, 63) = 31), FALSE)
      [] op = "PRIM_NULL_P" -> CInt(CBool(operand = empty_list_tag), FALSE)
      [] op = "PRIM_CHAR_P" -> CInt(CBool(And32(operand, 255) = char_tag), FALSE)
      [] op = "PRIM_INTEGER_TO_CHAR" ->
            CInt(Or32(Shl32(operand, 6), char_tag), ShlOverflows(operand, 6))
      [] op = "PRIM_CHAR_TO_INTEGER" ->
            CInt(Shl32(Sar32(operand, 8), 2), ShlOverflows(Sar32(operand, 8), 2))

eval_binary(op, left, right) ==
    CASE op = "PRIM_PLUS" -> CInt(Add32(left, right), AddOverflows(left, right))
      [] op = "PRIM_MINUS" -> CInt(Sub32(left, right), SubOverflows(left, right))
      [] op = "PRIM_MULTIPLY" ->
            CInt(Sar32(Mul32(left, right), 2), MulOverflows(left, right))
      [] op = "PRIM_EQUALS" -> CInt(CBool(left = right), FALSE)
      [] op = "PRIM_LESS" -> CInt(CBool(left < right), FALSE)
      [] op = "PRIM_GREATER" -> CInt(CBool(left > right), FALSE)
      [] op = "PRIM_LESS_EQUAL" -> CInt(CBool(left <= right), FALSE)
      [] op = "PRIM_GREATER_EQUAL" -> CInt(CBool(left >= right), FALSE)
      [] op = "PRIM_CHAR_EQUAL" -> CInt(CBool(left = right), FALSE)
      [] op = "PRIM_CHAR_LESS" -> CInt(CBool(left < right), FALSE)

\* eval_expr(expr) reaches the default branch of its switch ("Unknown
\* expression type in eval_expr", exit(1)): expr, or an operand that the
\* recursion evaluates, is not a literal or a primitive application
RECURSIVE eval_aborts(_)
eval_aborts(expr) ==
    CASE expr.type \in {"EXPR_FIXNUM", "EXPR_BOOLEAN", "EXPR_CHARACTER",
                        "EXPR_EMPTY_LIST"} -> FALSE
      [] expr.type = "EXPR_UNARY_PRIM" -> eval_aborts(expr.operand)
      [] expr.type = "EXPR_BINARY_PRIM" ->
            eval_aborts(expr.operand1) \/ eval_aborts(expr.operand2)
      [] OTHER -> TRUE

\* eval_expr on the node kinds it handles
RECURSIVE eval_expr(_)
eval_expr(expr) ==
    CASE expr.type = "EXPR_FIXNUM" -> tag_fixnum(expr.value)
      [] expr.type = "EXPR_BOOLEAN" ->
            CInt(IF expr.value # 0 THEN Or32(bool_tag, 32) ELSE bool_tag, FALSE)
      [] expr.type = "EXPR_CHARACTER" ->
            CInt(Or32(char_tag, Shl32(expr.value, 8)),
                 ShlOverflows(expr.value, 8))
      [] expr.type = "EXPR_EMPTY_LIST" -> CInt(empty_list_tag, FALSE)
      [] expr.type = "EXPR_UNARY_PRIM" ->
            LET operand == eval_expr(expr.operand)
                r == eval_unary(expr.op, operand.v)
            IN  CInt(r.v, r.ub \/ operand.ub)
      [] expr.type = "EXPR_BINARY_PRIM" ->
            LET left  == eval_expr(expr.operand1)
                right == eval_expr(expr.operand2)
                r == eval_binary(expr.op, left.v, right.v)
            IN  CInt(r.v, r.ub \/ left.ub \/ right.ub)

\* a constant test that accepts every tree (a faulty variant of
\* is_constant_expr, against which EvalOnlyOnConstants is tried)
always_constant(expr) == TRUE

\* a constant test that accepts literals only (a faulty variant of
\* is_constant_expr, against which ConstantSubtreesFolded is tried)
literals_only(expr) ==
    expr.type \in {"EXPR_FIXNUM", "EXPR_BOOLEAN", "EXPR_CHARACTER",
                   "EXPR_EMPTY_LIST"}

RECURSIVE is_constant_expr(_)
is_constant_expr(expr) ==
    CASE expr.type \in {"EXPR_FIXNUM", "EXPR_BOOLEAN", "EXPR_CHARACTER",
                        "EXPR_EMPTY_LIST"} -> TRUE
      [] expr.type = "EXPR_UNARY_PRIM" -> is_constant_expr(expr.operand)
      [] expr.type = "EXPR_BINARY_PRIM" ->
            is_constant_expr(expr.operand1) /\ is_constant_expr(expr.operand2)
      [] OTHER -> FALSE

(***************************************************************************)
(* Emitted instructions.  One record per line that emit_* prints, in AT&T  *)
(* operand order (source, destination).                                    *)
(***************************************************************************)
None == [k |-> "none", r |-> "", n |-> 0]

Imm(n) == [k |-> "imm", r |-> "", n |-> n]

Reg(r) == [k |-> "reg", r |-> r, n |-> 0]

\* disp(%base)
Mem(base, disp) == [k |-> "mem", r |-> base, n |-> disp]

Lab(n) == [k |-> "label", r |-> "", n |-> n]

Ins(op, src, dst) == [op |-> op, src |-> src, dst |-> dst]

emit_label(label) == Ins("label", Lab(label), None)

emit_jmp(label) == Ins("jmp", Lab(label), None)

\* a conditional jump that is always taken (a faulty variant of emit_je,
\* against which IfBranchesOnFalseTag is tried)
emit_je_always(label) == Ins("jmp", Lab(label), None)

emit_je(label) == Ins("je", Lab(label), None)

\* a spill one slot above the stack index (a faulty variant of Spill,
\* against which StackIndexOnlyDescends is tried)
SpillAbove(si) == Ins("movl", Reg("eax"), Mem("esp", si + 4))

\* movl %eax, si(%esp)
Spill(si) == Ins("movl", Reg("eax"), Mem("esp", si))

\* the tail shared by every predicate: setcc, zero-extend, shift, or the tag
BoolTail(setcc, tag) ==
    << Ins(setcc, None, Reg("al")),
       Ins("movzbl", Reg("al"), Reg("eax")),
       Ins("sall", Imm(6), Reg("eax")),
       Ins("orl", Imm(tag), Reg("eax")) >>

MaskedTest(mask, tag) ==
    << Ins("movl", Reg("eax"), Reg("ecx")),
       Ins("andl", Imm(mask), Reg("ecx")),
       Ins("cmpl", Imm(tag), Reg("ecx")) >> \o BoolTail("sete", 63)

\* emit_unary_prim with a char->integer that shifts the code out and leaves
\* it untagged (a faulty variant of emit_unary_prim, against which
\* ConversionsInvert is tried)
emit_unary_prim_untagged(prim) ==
    CASE prim = "PRIM_ADD1" -> << Ins("addl", Imm(4), Reg("eax")) >>
      [] prim = "PRIM_SUB1" -> << Ins("subl", Imm(4), Reg("eax")) >>
      [] prim = "PRIM_ZERO_P" ->
            << Ins("cmpl", Imm(0), Reg("eax")) >> \o BoolTail("sete", 63)
      [] prim = "PRIM_INTEGER_P" -> MaskedTest(3, 0)
      [] prim = "PRIM_BOOLEAN_P" -> MaskedTest(63, 31)
      [] prim = "PRIM_NULL_P" ->
            << Ins("cmpl", Imm(47), Reg("eax")) >> \o BoolTail("sete", 63)
      [] prim = "PRIM_CHAR_P" -> MaskedTest(255, 15)
      [] prim = "PRIM_INTEGER_TO_CHAR" ->
            << Ins("sall", Imm(6), Reg("eax")), Ins("orl", Imm(15), Reg("eax")) >>
      [] prim = "PRIM_CHAR_TO_INTEGER" ->
            << Ins("shrl", Imm(8), Reg("eax")) >>

emit_unary_prim(prim) ==
    CASE prim = "PRIM_ADD1" -> << Ins("addl", Imm(4), Reg("eax")) >>
      [] prim = "PRIM_SUB1" -> << Ins("subl", Imm(4), Reg("eax")) >>
      [] prim = "PRIM_ZERO_P" ->
            << Ins("cmpl", Imm(0), Reg("eax")) >> \o BoolTail("sete", 63)
      [] prim = "PRIM_INTEGER_P" -> MaskedTest(3, 0)
      [] prim = "PRIM_BOOLEAN_P" -> MaskedTest(63, 31)
      [] prim = "PRIM_NULL_P" ->
            << Ins("cmpl", Imm(47), Reg("eax")) >> \o BoolTail("sete", 63)
      [] prim = "PRIM_CHAR_P" -> MaskedTest(255, 15)
      [] prim = "PRIM_INTEGER_TO_CHAR" ->
            << Ins("sall", Imm(6), Reg("eax")), Ins("orl", Imm(15), Reg("eax")) >>
      [] prim = "PRIM_CHAR_TO_INTEGER" ->
            << Ins("shrl", Imm(8), Reg("eax")), Ins("sall", Imm(2), Reg("eax")) >>

\* cmpl %eax, slot(%esp) followed by the boolean tail
Compare(slot, setcc, tag) ==
    << Ins("cmpl", Reg("eax"), Mem("esp", slot)) >> \o BoolTail(setcc, tag)

\* si is the slot the right operand was spilled to
emit_binary_prim(prim, si) ==
    CASE prim = "PRIM_PLUS" -> << Ins("addl", Mem("esp", si), Reg("eax")) >>
      [] prim = "PRIM_MINUS" -> << Ins("subl", Mem("esp", si), Reg("eax")) >>
      [] prim = "PRIM_MULTIPLY" ->
            << Ins("movl", Mem("esp", si), Reg("ecx")),
               Ins("imull", Reg("ecx"), Reg("eax")),
               Ins("sarl", Imm(2), Reg("eax")) >>
      [] prim = "PRIM_EQUALS" -> Compare(si + 4, "sete", 31)
      [] prim = "PRIM_LESS" -> Compare(si + 4, "setg", 31)
      [] prim = "PRIM_GREATER" -> Compare(si + 4, "setl", 31)
      [] prim = "PRIM_LESS_EQUAL" -> Compare(si + 4, "setge", 31)
      [] prim = "PRIM_GREATER_EQUAL" -> Compare(si + 4, "setle", 63)
      [] prim = "PRIM_CHAR_EQUAL" -> Compare(si, "sete", 63)
      [] prim = "PRIM_CHAR_LESS" -> Compare(si, "setl", 63)

(***************************************************************************)
(* Environment (codegen.c).  A chain of EnvEntry nodes, innermost first.   *)
(* Each entry carries the identity of its allocation, so that the chain    *)
(* shared between an extension and its parent is the same memory.          *)
(***************************************************************************)
NotFound == 0 - 999

env_create == << >>

\* the new chain: a fresh entry whose next is the parent's bindings
env_extend(env, name, stack_offset, id) ==
    << [name |-> name, stack_offset |-> stack_offset, id |-> id] >> \o env

RECURSIVE env_lookup(_, _)
env_lookup(env, name) ==
    IF env = << >> THEN NotFound
    ELSE IF Head(env).name = name THEN Head(env).stack_offset
    ELSE env_lookup(Tail(env), name)

\* the entries env_lookup reads: up to and including the first match
RECURSIVE LookupReads(_, _)
LookupReads(env, name) ==
    IF env = << >> THEN {}
    ELSE IF Head(env).name = name THEN {Head(env).id}
    ELSE {Head(env).id} \cup LookupReads(Tail(env), name)

\* env_free walks the whole chain and frees every entry it reaches
EntriesOf(env) == {env[i].id : i \in 1..Len(env)}

(***************************************************************************)
(* Code generator state threaded through emit_expr: the label counters     *)
(* (label_counter and label_count advance together), the environment       *)
(* entries allocated and freed so far, and whether freed memory was read   *)
(* (uaf) or freed again (dfree).                                           *)
(***************************************************************************)
MaxLabels == 100

GenInit == [labels |-> 0, allocated |-> 0, freed |-> {},
            uaf |-> FALSE, dfree |-> FALSE]

\* the result of emitting a subtree: the instructions appended to the sink,
\* the returned stack index, and the fatal error if the process exited
Emitted(code, si, g) == [ok |-> TRUE, err |-> "", code |-> code, si |-> si, g |-> g]

Aborted(err, code, si, g) ==
    [ok |-> FALSE, err |-> err, code |-> code, si |-> si, g |-> g]

\* r, then more instructions printed
Emit(r, instrs) == IF r.ok THEN [r EXCEPT !.code = @ \o instrs] ELSE r

\* r, then a new stack index
WithSi(r, si) == [r EXCEPT !.si = si]

RECURSIVE emit_expr(_, _, _, _, _, _)

\* the sink after r, then the subtree expr emitted at si under env
Then(r, expr, si, env, mode, ub) ==
    IF ~r.ok THEN r
    ELSE LET s == emit_expr(expr, si, env, r.g, mode, ub)
         IN  [s EXCEPT !.code = r.code \o @]

\* movl $val, %eax for a value computed by eval_expr
emit_constant(expr, si, g, ub) ==
    IF eval_aborts(expr)
    THEN Aborted("UnknownExpressionType", << >>, si, g)
    ELSE LET val == eval_expr(expr)
         IN  IF val.ub /\ ub = "fatal"
             THEN Aborted("UndefinedBehaviour", << >>, si, g)
             ELSE Emitted(<< Ins("movl", Imm(val.v), Reg("eax")) >>, si, g)

emit_variable(expr, si, env, g, ub) ==
    LET offset == env_lookup(env, expr.name)
        stale  == LookupReads(env, expr.name) \cap g.freed # {}
        g1     == [g EXCEPT !.uaf = @ \/ stale]
    IN  IF stale /\ ub = "fatal"
        THEN Aborted("UndefinedBehaviour", << >>, si, g1)
        ELSE IF offset = NotFound
        THEN Aborted("UndefinedVariable", << >>, si, g1)
        ELSE Emitted(<< Ins("movl", Mem("esp", offset), Reg("eax")) >>, si, g1)

emit_unary(expr, si, env, g, mode, ub) ==
    LET r == emit_expr(expr.operand, si, env, g, mode, ub)
    IN  Emit(r, emit_unary_prim(expr.op))

emit_binary(expr, si, env, g, mode, ub) ==
    LET right == emit_expr(expr.operand2, si, env, g, mode, ub)
        saved == Emit(right, << Spill(right.si) >>)
        left  == Then(saved, expr.operand1, right.si - 4, env, mode, ub)
    IN  WithSi(Emit(left, emit_binary_prim(expr.op, left.si + 4)),
               left.si + 4)

\* env_free(new_env) after the body: every entry of the chain is freed
free_env(r, new_env, ub) ==
    IF ~r.ok THEN r
    ELSE LET again == EntriesOf(new_env) \cap r.g.freed # {}
             g1 == [r.g EXCEPT !.freed = @ \cup EntriesOf(new_env),
                               !.uaf = @ \/ again,
                               !.dfree = @ \/ again]
         IN  IF again /\ ub = "fatal"
             THEN Aborted("UndefinedBehaviour", r.code, r.si, g1)
             ELSE [r EXCEPT !.g = g1]

\* a let whose init is emitted under the extended environment, so that the
\* bound name is visible in its own init (a faulty variant of emit_let,
\* against which InitUnderEnclosingEnvironment is tried)
emit_let_recursive(expr, si, env, g, mode, ub) ==
    LET id      == g.allocated + 1
        new_env == env_extend(env, expr.name, si, id)
        init    == emit_expr(expr.init, si, new_env,
                             [g EXCEPT !.allocated = id], mode, ub)
        saved   == Emit(init, << Spill(init.si) >>)
        body    == Then(saved, expr.body, init.si - 4, new_env, mode, ub)
    IN  free_env(body, new_env, ub)

emit_let(expr, si, env, g, mode, ub) ==
    LET init    == emit_expr(expr.init, si, env, g, mode, ub)
        saved   == Emit(init, << Spill(init.si) >>)
        id      == saved.g.allocated + 1
        new_env == env_extend(env, expr.name, init.si, id)
        bound   == [saved EXCEPT !.g.allocated = id]
        body    == Then(bound, expr.body, init.si - 4, new_env, mode, ub)
    IN  free_env(body, new_env, ub)

\* a label allocator without the capacity test (a faulty variant of
\* unique_label, against which LabelCapacity is tried)
unbounded_label(r) ==
    IF ~r.ok THEN r ELSE [r EXCEPT !.g.labels = @ + 1]

\* a label allocator that hands out the same name every time (a faulty
\* variant of unique_label, against which LabelsPlacedOnce is tried)
reused_label(r) ==
    IF ~r.ok THEN r ELSE [r EXCEPT !.g.labels = 1]

\* unique_label(): the label, or the fatal error past the table's capacity
unique_label(r) ==
    IF ~r.ok THEN r
    ELSE IF r.g.labels >= MaxLabels
    THEN Aborted("TooManyLabels", r.code, r.si, r.g)
    ELSE [r EXCEPT !.g.labels = @ + 1]

emit_if(expr, si, env, g, mode, ub) ==
    LET l1      == unique_label(Emitted(<< >>, si, g))
        L_false == l1.g.labels - 1
        l2      == unique_label(l1)
        L_end   == l2.g.labels - 1
        test    == Then(l2, expr.test, si, env, mode, ub)
        branch  == Emit(test, << Ins("cmpl", Imm(31), Reg("eax")),
                                   emit_je(L_false) >>)
        conseq  == Then(branch, expr.consequent, test.si, env, mode, ub)
        skip    == Emit(conseq, << emit_jmp(L_end), emit_label(L_false) >>)
        alt     == Then(skip, expr.alternate, conseq.si, env, mode, ub)
    IN  Emit(alt, << emit_label(L_end) >>)

emit_cons(expr, si, env, g, mode, ub) ==
    LET car   == emit_expr(expr.car_expr, si, env, g, mode, ub)
        saved == Emit(car, << Spill(car.si) >>)
        cdr   == Then(saved, expr.cdr_expr, car.si - 4, env, mode, ub)
        si2   == cdr.si - 4
    IN  WithSi(Emit(cdr, << Spill(cdr.si),
                              Ins("movl", Reg("esp"), Reg("eax")),
                              Ins("addl", Imm(si2 + 4), Reg("eax")),
                              Ins("orl", Imm(1), Reg("eax")) >>),
               si2)

emit_car(expr, si, env, g, mode, ub) ==
    LET pair == emit_expr(expr.pair, si, env, g, mode, ub)
    IN  Emit(pair, << Ins("subl", Imm(1), Reg("eax")),
                        Ins("movl", Mem("eax", 4), Reg("eax")) >>)

emit_cdr(expr, si, env, g, mode, ub) ==
    LET pair == emit_expr(expr.pair, si, env, g, mode, ub)
    IN  Emit(pair, << Ins("subl", Imm(1), Reg("eax")),
                        Ins("movl", Mem("eax", 0), Reg("eax")) >>)

emit_expr(expr, si, env, g, mode, ub) ==
    IF mode = MODE_CTE /\ is_constant_expr(expr)
    THEN emit_constant(expr, si, g, ub)
    ELSE CASE expr.type \in {"EXPR_FIXNUM", "EXPR_BOOLEAN", "EXPR_CHARACTER",
                             "EXPR_EMPTY_LIST"} -> emit_constant(expr, si, g, ub)
           [] expr.type = "EXPR_VARIABLE" -> emit_variable(expr, si, env, g, ub)
           [] expr.type = "EXPR_UNARY_PRIM" ->
                 emit_unary(expr, si, env, g, mode, ub)
           [] expr.type = "EXPR_BINARY_PRIM" ->
                 emit_binary(expr, si, env, g, mode, ub)
           [] expr.type = "EXPR_LET" -> emit_let(expr, si, env, g, mode, ub)
           [] expr.type = "EXPR_IF" -> emit_if(expr, si, env, g, mode, ub)
           [] expr.type = "EXPR_CONS" -> emit_cons(expr, si, env, g, mode, ub)
           [] expr.type = "EXPR_CAR" -> emit_car(expr, si, env, g, mode, ub)
           [] expr.type = "EXPR_CDR" -> emit_cdr(expr, si, env, g, mode, ub)

\* the whole unit: the heap-pointer load, the expression, the exit trailer
emit_program(expr, mode, ub) ==
    LET head == Emitted(<< Ins("movl", Imm(1048576), Reg("esi")) >>, 0 - 4,
                        GenInit)
        body == Then(head, expr, 0 - 4, env_create, mode, ub)
    IN  Emit(body, << Ins("movl", Reg("eax"), Reg("ebx")),
                        Ins("movl", Imm(1), Reg("eax")),
                        Ins("int", Imm(128), None) >>)

(***************************************************************************)
(* The machine that runs the emitted unit: 32-bit x86, the registers and   *)
(* flags the emitted instructions use, and the stack.                      *)
(***************************************************************************)
\* %esp when _start is entered: 16-byte aligned, (%esp) holds argc
InitialEsp == 0 - 16 * 768

\* how far below and above InitialEsp the stack segment is mapped
StackBytes == 4 * 256

InStack(addr) == /\ addr >= InitialEsp - StackBytes
                 /\ addr <= InitialEsp + StackBytes

\* the words a stack cell may hold when the program never wrote it
UninitWords(addr) == IF addr = InitialEsp THEN {1, 2} ELSE {0, 1}

InitialRegs == [eax |-> 0, ecx |-> 0, ebx |-> 0, esi |-> 0, esp |-> InitialEsp]

InitialFlags == [zf |-> FALSE, lt |-> FALSE]

\* the address a memory operand names
AddrOf(o, regs) == Add32(regs[o.r], o.n)

\* the memory operand an instruction reads, None when it reads none
MemRead(i) ==
    IF i.src.k = "mem" THEN i.src
    ELSE IF i.dst.k = "mem" /\ i.op = "cmpl" THEN i.dst
    ELSE None

\* the position of the line that places a label
LabelAt(code, label) ==
    CHOOSE p \in 1..Len(code) : code[p] = emit_label(label)

\* the value of an operand; w is the word fetched for a memory operand
ValueOf(o, regs, w) ==
    CASE o.k = "imm" -> o.n
      [] o.k = "reg" -> IF o.r = "al" THEN regs.eax % 256 ELSE regs[o.r]
      [] o.k = "mem" -> w

SetCC(op, flags) ==
    CASE op = "sete" -> flags.zf
      [] op = "setl" -> flags.lt
      [] op = "setg" -> ~flags.lt /\ ~flags.zf
      [] op = "setle" -> flags.lt \/ flags.zf
      [] op = "setge" -> ~flags.lt

\* the result an arithmetic instruction leaves in its destination
Alu(op, src, dst) ==
    CASE op = "movl" -> src
      [] op = "movzbl" -> src
      [] op = "addl" -> Add32(dst, src)
      [] op = "subl" -> Sub32(dst, src)
      [] op = "imull" -> Mul32(dst, src)
      [] op = "andl" -> And32(dst, src)
      [] op = "orl" -> Or32(dst, src)
      [] op = "sall" -> Shl32(dst, src)
      [] op = "sarl" -> Sar32(dst, src)
      [] op = "shrl" -> Shr32(dst, src)

\* one instruction.  m is the machine (regs, flags, mem, ip), w the word
\* fetched for the instruction's memory operand.  cmpl is the only
\* instruction whose flags a later emitted instruction reads.
Exec(i, code, m, w) ==
    LET next == [m EXCEPT !.ip = @ + 1]
        src  == ValueOf(i.src, m.regs, w)
    IN  CASE i.op = "label" -> next
          [] i.op = "jmp" -> [m EXCEPT !.ip = LabelAt(code, i.src.n)]
          [] i.op = "je" ->
                IF m.flags.zf THEN [m EXCEPT !.ip = LabelAt(code, i.src.n)]
                ELSE next
          [] i.op = "cmpl" ->
                LET dst == ValueOf(i.dst, m.regs, w)
                IN  [next EXCEPT !.flags = [zf |-> dst = src, lt |-> dst < src]]
          [] i.op \in {"sete", "setl", "setg", "setle", "setge"} ->
                [next EXCEPT !.regs.eax =
                    Or32(And32(@, 0 - 256), IF SetCC(i.op, m.flags) THEN 1 ELSE 0)]
          [] i.op = "int" -> next
          [] OTHER ->
                LET res == Alu(i.op, src, ValueOf(i.dst, m.regs, w))
                IN  IF i.dst.k = "mem"
                    THEN [next EXCEPT !.mem = (AddrOf(i.dst, m.regs) :> res) @@ @]
                    ELSE [next EXCEPT !.regs[i.dst.r] = res]

(***************************************************************************)
(* The state machine: one compilation (main) followed by the run of the    *)
(* unit it wrote.                                                          *)
(***************************************************************************)
VARIABLES
    input,             \* the source text
    compilation_mode,  \* MODE_RTE, or MODE_CTE under -O
    pc,                \* lex, parse, emit, run, exited, aborted, crashed
    err,               \* the fatal error of the compiler, "" if none
    tokens,            \* the token stream of the input
    ast,               \* the expression parse_program returned
    out,               \* the instructions printed to the output sink
    gen,               \* the code generator's counters and heap
    machine,           \* registers, flags, stack memory and instruction pointer
    status             \* the exit status of the run

vars == <<input, compilation_mode, pc, err, tokens, ast, out, gen, machine, status>>

InitialMachine ==
    [regs |-> InitialRegs, flags |-> InitialFlags, mem |-> << >>, ip |-> 1]

\* the words the instruction's memory read may fetch: the cell's content,
\* any content for a cell never written, 0 when no memory is read
Fetch(i, m) ==
    LET addr == AddrOf(MemRead(i), m.regs)
    IN  IF MemRead(i).k # "mem" THEN {0}
        ELSE IF addr \in DOMAIN m.mem THEN {m.mem[addr]}
        ELSE UninitWords(addr)

\* a cell read before it was written keeps the content the read found
Remember(i, m, w) ==
    LET addr == AddrOf(MemRead(i), m.regs)
    IN  IF MemRead(i).k = "mem" /\ addr \notin DOMAIN m.mem
           /\ (addr - InitialEsp) % 4 = 0
        THEN [m EXCEPT !.mem = (addr :> w) @@ @]
        ELSE m

\* the instruction touches memory outside the stack segment (SIGSEGV)
Faults(i, m) ==
    \/ MemRead(i).k = "mem" /\ ~InStack(AddrOf(MemRead(i), m.regs))
    \/ i.dst.k = "mem" /\ ~InStack(AddrOf(i.dst, m.regs))

\* the run from machine m to the exit system call, every unwritten cell
\* that may hold u holding u: the word in %ebx at exit, or that the run
\* faulted
RECURSIVE RunFrom(_, _, _)
RunFrom(code, m, u) ==
    LET i == code[m.ip]
    IN  IF Faults(i, m) THEN [faulted |-> TRUE, ebx |-> 0]
        ELSE IF i.op = "int" THEN [faulted |-> FALSE, ebx |-> m.regs.ebx]
        ELSE LET w == IF MemRead(i).k = "mem" /\ u \in Fetch(i, m)
                      THEN u ELSE CHOOSE x \in Fetch(i, m) : TRUE
             IN  RunFrom(code, Exec(i, code, Remember(i, m, w), w), u)

\* main(): dump_tokens_to_file lexes the whole input
Lex ==
    /\ pc = "lex"
    /\ LET r == Tokenize(input, 1)
       IN  /\ tokens' = r.toks
           /\ err' = r.err
           /\ pc' = IF r.ok THEN "parse" ELSE "aborted"
    /\ UNCHANGED <<input, compilation_mode, ast, out, gen, machine, status>>

\* main(): expr = parse_program(input)
Parse ==
    /\ pc = "parse"
    /\ LET r == parse_program(tokens)
       IN  /\ ast' = r.expr
           /\ err' = r.err
           /\ pc' = IF r.ok THEN "emit" ELSE "aborted"
    /\ UNCHANGED <<input, compilation_mode, tokens, out, gen, machine, status>>

\* main(): emit_program(out, expr).  Undefined behaviour of the C code
\* either passes unnoticed ("benign") or ends the process ("fatal").
Compile ==
    /\ pc = "emit"
    /\ \E ub \in {"benign", "fatal"} :
          LET r == emit_program(ast, compilation_mode, ub)
          IN  /\ out' = r.code
              /\ gen' = r.g
              /\ err' = r.err
              /\ pc' = IF r.ok THEN "run" ELSE "aborted"
    /\ UNCHANGED <<input, compilation_mode, tokens, ast, machine, status>>

\* the assembled unit executes one instruction
Step ==
    /\ pc = "run"
    /\ LET i == out[machine.ip]
       IN  IF Faults(i, machine)
           THEN /\ pc' = "crashed"
                /\ UNCHANGED <<machine, status>>
           ELSE IF i.op = "int"
           THEN /\ pc' = "exited"
                /\ status' = machine.regs.ebx % 256
                /\ UNCHANGED machine
           ELSE /\ \E w \in Fetch(i, machine) :
                      machine' = Exec(i, out, Remember(i, machine, w), w)
                /\ UNCHANGED <<pc, status>>
    /\ UNCHANGED <<input, compilation_mode, err, tokens, ast, out, gen>>

Next == Lex \/ Parse \/ Compile \/ Step

(***************************************************************************)
(* Source texts.  A program is written as the characters of its file; the  *)
(* operators below spell the forms of the language.                        *)
(***************************************************************************)
\* the decimal spelling of n
RECURSIVE Decimal(_)
Decimal(n) ==
    IF n < 10 THEN << Digits[n + 1] >>
    ELSE Decimal(n \div 10) \o << Digits[(n % 10) + 1] >>

W_let == <<"l", "e", "t">>

W_if == <<"i", "f">>

W_cons == <<"c", "o", "n", "s">>

W_car == <<"c", "a", "r">>

W_cdr == <<"c", "d", "r">>

W_return == <<"r", "e", "t", "u", "r", "n">>

W_sub1 == <<"s", "u", "b", "1">>

W_add1 == <<"a", "d", "d", "1">>

W_zero_p == <<"z", "e", "r", "o", "?">>

W_char == <<"c", "h", "a", "r">>

T_true == <<"#", "t">>

T_false == <<"#", "f">>

T_charA == <<"#", "\\", "A">>

T_nil == <<"(", ")">>

X == << "x" >>

Y == << "y" >>

P == << "p" >>

Q == << "q" >>

Sp == << " " >>

LP == << "(" >>

RP == << ")" >>

\* (name a), (name a b), (name a b c)
Call1(name, a) == LP \o name \o Sp \o a \o RP

Call2(name, a, b) == LP \o name \o Sp \o a \o Sp \o b \o RP

Call3(name, a, b, c) == LP \o name \o Sp \o a \o Sp \o b \o Sp \o c \o RP

\* a op b
Infix(a, op, b) == a \o Sp \o op \o Sp \o b

\* (let (x init) body)
LetText(x, init, body) ==
    LP \o W_let \o Sp \o LP \o x \o Sp \o init \o RP \o Sp \o body \o RP

\* the largest fixnum literal of the enumerated families
MaxFix == 2

Fixnums == 0..MaxFix

\* the fixnum range of the tagging scheme: 30 bits, two's complement
FixnumMax == 8192 * Half - 1

FixnumMin == 0 - 8192 * Half

LiteralTexts ==
    {Decimal(n) : n \in Fixnums} \cup {T_true, T_false, T_charA, T_nil}

UnarySpellings ==
    {<<"a", "d", "d", "1">>,
     <<"s", "u", "b", "1">>,
     <<"i", "n", "t", "e", "g", "e", "r", "-", ">", "c", "h", "a", "r">>,
     <<"c", "h", "a", "r", "-", ">", "i", "n", "t", "e", "g", "e", "r">>,
     <<"z", "e", "r", "o", "?">>,
     <<"n", "u", "l", "l", "?">>,
     <<"i", "n", "t", "e", "g", "e", "r", "?">>,
     <<"b", "o", "o", "l", "e", "a", "n", "?">>,
     <<"c", "h", "a", "r", "?">>}

InfixOperators == {<< "+" >>, << "-" >>, << "*" >>}

PrefixOperators ==
    {<< "+" >>, << "-" >>, << "*" >>, << "=" >>, << "<" >>, << ">" >>}

\* constant-only expressions: literals and primitive applications over them
ConstantPrograms ==
    LiteralTexts
    \cup {Call1(u, l) : u \in UnarySpellings, l \in LiteralTexts}
    \cup {Call1(u, Call1(W_sub1, Decimal(1))) : u \in UnarySpellings}
    \cup {Call2(op, Decimal(a), Decimal(b)) :
              op \in PrefixOperators, a \in Fixnums, b \in Fixnums}
    \cup {Infix(Decimal(a), op, Decimal(b)) :
              op \in InfixOperators, a \in Fixnums, b \in Fixnums}

\* operands whose tagged product leaves 32 bits while the product is a fixnum
MulOperands == Fixnums \cup {8192, 16384}

MulInfix(a, b) == Infix(Decimal(a), << "*" >>, Decimal(b))

MulPrefix(a, b) == Call2(<< "*" >>, Decimal(a), Decimal(b))

MulPrograms ==
    {MulInfix(a, b) : a \in MulOperands, b \in MulOperands}
    \cup {MulPrefix(a, b) : a \in MulOperands, b \in MulOperands}

\* tests of every kind of value: fixnum zero, booleans, a character, the
\* empty list, and predicates whose result is computed at run time
TestTexts ==
    {Decimal(0), T_true, T_false, T_charA, T_nil,
     Call1(W_zero_p, Decimal(0)), Call1(W_zero_p, Decimal(1))}

IfText(t, c, a) == Call3(W_if, t, c, a)

IfPrograms ==
    {IfText(t, Decimal(c), Decimal(a)) :
         t \in TestTexts, c \in Fixnums, a \in Fixnums}
    \cup {IfText(T_true, IfText(T_false, Decimal(10), Decimal(5)), Decimal(0)),
          IfText(IfText(T_false, T_true, T_false), Decimal(1), Decimal(2)),
          IfText(T_false, LetText(X, Decimal(1), X), LetText(X, Decimal(2), X)),
          IfText(T_nil, Call1(W_car, Call2(W_cons, Decimal(1), Decimal(2))),
                 Decimal(3)),
          IfText(Call1(W_sub1, Decimal(1)), Decimal(1),
                 Infix(Decimal(1), << "+" >>, Decimal(2)))}

\* (let (x a) (let (x b) x))
ShadowInner(a, b) == LetText(X, Decimal(a), LetText(X, Decimal(b), X))

\* (let (x a) (+ x (let (x b) x)))
ShadowBefore(a, b) ==
    LetText(X, Decimal(a),
            Call2(<< "+" >>, X, LetText(X, Decimal(b), X)))

\* (let (x a) (+ (let (x b) x) x))
ShadowAfter(a, b) ==
    LetText(X, Decimal(a),
            Call2(<< "+" >>, LetText(X, Decimal(b), X), X))

ShadowPrograms ==
    {ShadowInner(a, b) : a \in Fixnums, b \in Fixnums}
    \cup {ShadowBefore(a, b) : a \in Fixnums, b \in Fixnums}
    \cup {ShadowAfter(a, b) : a \in Fixnums, b \in Fixnums}
    \cup {ShadowInner(5, 10)}

\* pair components: a literal, arithmetic, a let, an if, a nested cons
ComponentTexts ==
    {Decimal(1),
     Infix(Decimal(1), << "+" >>, Decimal(2)),
     LetText(X, Decimal(2), Decimal(3)),
     LetText(X, Decimal(2), X),
     IfText(T_true, Decimal(1), Decimal(2)),
     Call2(W_cons, Decimal(2), Decimal(3))}

PairPrograms ==
    {Call1(sel, Call2(W_cons, a, b)) :
         sel \in {W_car, W_cdr}, a \in ComponentTexts, b \in ComponentTexts}

\* a + b * c,  a - b - c,  a * b + c,  (a + b) * c
SumOfProduct(a, b, c) ==
    Infix(Decimal(a), << "+" >>, Infix(Decimal(b), << "*" >>, Decimal(c)))

ChainedMinus(a, b, c) ==
    Infix(Infix(Decimal(a), << "-" >>, Decimal(b)), << "-" >>, Decimal(c))

ProductPlus(a, b, c) ==
    Infix(Infix(Decimal(a), << "*" >>, Decimal(b)), << "+" >>, Decimal(c))

GroupTimes(a, b, c) ==
    Infix(LP \o Infix(Decimal(a), << "+" >>, Decimal(b)) \o RP,
          << "*" >>, Decimal(c))

\* 2 + 3 * 4  and  (10 + 5) * 2 + 3
PrecedenceExample == SumOfProduct(2, 3, 4)

GroupingExample == Infix(GroupTimes(10, 5, 2), << "+" >>, Decimal(3))

InfixPrograms ==
    {SumOfProduct(a, b, c) : a \in Fixnums, b \in Fixnums, c \in Fixnums}
    \cup {ChainedMinus(a, b, c) : a \in Fixnums, b \in Fixnums, c \in Fixnums}
    \cup {ProductPlus(a, b, c) : a \in Fixnums, b \in Fixnums, c \in Fixnums}
    \cup {GroupTimes(a, b, c) : a \in Fixnums, b \in Fixnums, c \in Fixnums}
    \cup {PrecedenceExample, GroupingExample}

\* (op a b op2 c) and (op a op2 b c): a prefix form with an infix operator
\* among its arguments
PrefixWithInfix(op, a, op2, b, c) ==
    LP \o op \o Sp \o Decimal(a) \o Sp \o Infix(Decimal(b), op2, Decimal(c))
       \o RP

PrefixWithInfixFirst(op, a, op2, b, c) ==
    LP \o op \o Sp \o Infix(Decimal(a), op2, Decimal(b)) \o Sp \o Decimal(c)
       \o RP

MixedPrograms ==
    {PrefixWithInfix(op, 2, op2, 3, 4) :
         op \in PrefixOperators, op2 \in InfixOperators}
    \cup {PrefixWithInfixFirst(op, 2, op2, 3, 4) :
         op \in PrefixOperators, op2 \in InfixOperators}

\* (let (x a) x + b)
LetInfixBody(a, b) ==
    LetText(X, Decimal(a), Infix(X, << "+" >>, Decimal(b)))

LetBodyPrograms ==
    {LetInfixBody(a, b) : a \in Fixnums, b \in Fixnums}
    \cup {LetInfixBody(3, 5)}

\* the expressions wrapped by "return" and ";"
BaseTexts ==
    {Decimal(1), Infix(Decimal(1), << "+" >>, Decimal(2)),
     Call1(W_add1, Decimal(1))}

Returned(e) == W_return \o Sp \o e

Terminated(e) == e \o << ";" >>

WrappedPrograms ==
    BaseTexts \cup {Returned(e) : e \in BaseTexts}
    \cup {Terminated(e) : e \in BaseTexts}
    \cup {Terminated(Returned(e)) : e \in BaseTexts}

\* a token left over after the expression and the optional ";"
LeftoverTexts ==
    {Decimal(1), << ";" >>, RP, LP, W_return, X, << "=" >>, T_true}

Leftover(e, semi, extra) ==
    (IF semi THEN Terminated(e) ELSE e) \o Sp \o extra

TrailingPrograms ==
    {Leftover(e, semi, extra) \o end :
         e \in BaseTexts \cup {Returned(b) : b \in BaseTexts},
         semi \in BOOLEAN, extra \in LeftoverTexts \ {<< ";" >>},
         end \in {<< >>, << ";" >>}}
    \cup {Terminated(Terminated(e)) : e \in BaseTexts}
    \cup {Returned(Returned(e)) : e \in BaseTexts}

\* forms whose first token after "(" is an identifier
SpecialForms ==
    {LetText(X, Decimal(1), X), IfText(T_true, Decimal(1), Decimal(2)),
     Call2(W_cons, Decimal(1), Decimal(2)),
     Call1(W_car, Call2(W_cons, Decimal(1), Decimal(2))),
     Call1(W_cdr, Call2(W_cons, Decimal(1), Decimal(2)))}

UnknownNames ==
    {<< "f", "o", "o" >>, X, << "a", "d", "d" >>, << "l", "e", "t", "s" >>,
     << "c", "h", "a", "r" >>, << "n", "o", "t" >>, << "i", "f", "_" >>,
     << "a", "d", "d", "1", "?" >>}

CallPrograms ==
    SpecialForms
    \cup {Call1(u, Decimal(1)) : u \in UnarySpellings}
    \cup {Call1(n, Decimal(1)) : n \in UnknownNames}
    \cup {Call2(n, Decimal(1), Decimal(2)) : n \in UnknownNames}
    \cup {LP \o Infix(X, << "+" >>, Decimal(1)) \o RP,
          Call2(W_char \o << "=", "?" >>, T_charA, T_charA),
          Call2(W_char \o << "<", "?" >>, T_charA, T_charA)}

\* (e)
Grouped(e) == LP \o e \o RP

\* the texts put between parentheses: literals, infix expressions that
\* start with a literal, and texts that start with "("
GroupBodies ==
    {Decimal(1), T_true, T_charA, T_nil,
     Infix(Decimal(1), << "+" >>, Decimal(2)),
     Infix(Decimal(2), << "*" >>, Decimal(2)),
     Grouped(Decimal(1)),
     Infix(Grouped(Infix(Decimal(1), << "+" >>, Decimal(2))), << "*" >>,
           Decimal(2)),
     Call1(W_add1, Decimal(1))}

\* groups whose first token is the identifier x, at the top and where x is
\* bound
IdentifierHeadPrograms ==
    {Grouped(X), Grouped(Infix(X, << "+" >>, Decimal(1))),
     LetText(X, Decimal(1), Grouped(X)),
     LetText(X, Decimal(1), Grouped(Infix(X, << "+" >>, Decimal(1)))),
     LetText(X, Decimal(1), Grouped(Infix(Grouped(X), << "+" >>, Decimal(1))))}

\* the bound x as an operand of a group that a literal opens
BoundInGroup == LetText(X, Decimal(1), Grouped(Infix(Decimal(1), << "+" >>, X)))

\* a group whose ")" is missing
UnclosedGroup == LP \o Infix(Decimal(1), << "+" >>, Decimal(2))

GroupPrograms ==
    {Grouped(e) : e \in GroupBodies} \cup IdentifierHeadPrograms
    \cup {BoundInGroup, UnclosedGroup}

\* car and cdr applied to a value that is not a pair
NotPairPrograms ==
    {Call1(W_car, Decimal(1)), Call1(W_cdr, T_nil),
     Call1(W_car, Call1(W_add1, Decimal(1)))}

\* texts the lexer rejects
UnlexablePrograms ==
    {<< "#", "x" >>, << "1", " ", "$" >>, << "#" >>, << "#", "\\" >>,
     << "#", "t", "r", "u", "e" >>, << "#", "\\", "f", "o", "o" >>}

\* variable references inside and outside the let that binds them
ScopePrograms ==
    {X, Call1(W_add1, X),
     Infix(X, << "+" >>, Decimal(1)), Infix(Decimal(1), << "+" >>, X),
     LetText(X, Decimal(1), X), LetText(X, Decimal(1), Y),
     LetText(X, X, Decimal(1)),
     LetText(X, Decimal(1), Infix(X, << "+" >>, X)),
     LetText(X, LetText(Y, Decimal(1), Y), X),
     LetText(X, LetText(Y, Decimal(1), Y), Y),
     LetText(Y, Decimal(1), LetText(X, Decimal(2), Y)),
     LetText(Y, Decimal(1), LetText(X, Decimal(2), Q)),
     LetText(X, Decimal(1), Call2(<< "+" >>, X, LetText(Y, Decimal(2), Y))),
     Call2(<< "+" >>, LetText(X, Decimal(1), X), X),
     Call2(<< "+" >>, X, LetText(X, Decimal(1), X)),
     Call2(<< "+" >>, LetText(X, Decimal(1), X), LetText(Y, Decimal(2), Y)),
     Call1(W_add1, IfText(T_true, Decimal(1), X)),
     Call1(W_add1, IfText(X, Decimal(1), Decimal(2))),
     IfText(T_true, LetText(X, Decimal(1), X), LetText(Y, Decimal(2), Y)),
     Call2(W_cons, Decimal(1), X), Call1(W_car, X),
     Call2(<< "+" >>, Infix(Decimal(1), << "*" >>, Decimal(2)), X)}

\* (let (p (cons a b)) body)
PairLet(a, b, body) ==
    LetText(P, Call2(W_cons, Decimal(a), Decimal(b)), body)

CarP == Call1(W_car, P)

CdrP == Call1(W_cdr, P)

\* bodies that read the bound pair after spilling temporaries of their own,
\* each with the integer it denotes when p = (a . b)
PairBodies(a, b) ==
    {[text |-> CarP, value |-> a],
     [text |-> CdrP, value |-> b],
     [text |-> Call2(<< "+" >>, CarP, CdrP), value |-> a + b],
     [text |-> Call2(<< "-" >>, CdrP, CarP), value |-> b - a],
     [text |-> Infix(Infix(Decimal(1), << "+" >>, Decimal(2)), << "+" >>, CarP),
      value |-> 3 + a],
     [text |-> Infix(CdrP, << "*" >>, Infix(CarP, << "*" >>, Decimal(2))),
      value |-> b * (a * 2)],
     [text |-> IfText(Call1(W_zero_p, Decimal(0)), CarP, CdrP), value |-> a],
     [text |-> IfText(T_false, CarP, CdrP), value |-> b],
     [text |-> Call1(W_car, Call2(W_cons, CdrP, CarP)), value |-> b],
     [text |-> Call1(W_cdr, Call2(W_cons, CdrP, CarP)), value |-> a],
     [text |-> Call2(<< "+" >>, CarP, Call1(W_car, Call2(W_cons, Decimal(1), Decimal(2)))),
      value |-> a + 1],
     [text |-> LetText(Q, Decimal(5), CarP), value |-> a],
     [text |-> LetText(Q, Decimal(5), Call2(<< "+" >>, Q, CdrP)),
      value |-> 5 + b]}

PairOperands == {<<10, 20>>, <<1, 2>>, <<0, 0>>}

BoundPairCases ==
    UNION {{[text |-> PairLet(ab[1], ab[2], c.text), value |-> c.value] :
                c \in PairBodies(ab[1], ab[2])} : ab \in PairOperands}

BoundPairPrograms == {c.text : c \in BoundPairCases}

\* (let (p (cons 10 20)) (+ (car p) (cdr p)))
PairSumExample == PairLet(10, 20, Call2(<< "+" >>, CarP, CdrP))

W_charEq == W_char \o << "=", "?" >>

W_charLt == W_char \o << "<", "?" >>

\* the comparison spellings of the language reference, each with the
\* primitive it names
ComparisonSpellings ==
    {[text |-> << "=" >>, op |-> "PRIM_EQUALS"],
     [text |-> << "<" >>, op |-> "PRIM_LESS"],
     [text |-> << ">" >>, op |-> "PRIM_GREATER"],
     [text |-> << "<", "=" >>, op |-> "PRIM_LESS_EQUAL"],
     [text |-> << ">", "=" >>, op |-> "PRIM_GREATER_EQUAL"],
     [text |-> W_charEq, op |-> "PRIM_CHAR_EQUAL"],
     [text |-> W_charLt, op |-> "PRIM_CHAR_LESS"]}

\* (op a b) with literal a and b
ComparisonCall(c, a, b) == Call2(c.text, a, b)

ComparisonPrograms ==
    {ComparisonCall(c, Decimal(1), Decimal(2)) : c \in ComparisonSpellings}
    \cup {ComparisonCall(c, T_charA, T_charA) : c \in ComparisonSpellings}

W_int2char ==
    <<"i", "n", "t", "e", "g", "e", "r", "-", ">", "c", "h", "a", "r">>

W_char2int ==
    <<"c", "h", "a", "r", "-", ">", "i", "n", "t", "e", "g", "e", "r">>

\* the largest character code of the conversion round trips
MaxCharCode == 127

CharCodes == 0..MaxCharCode

\* (char->integer (integer->char n))
CodeRoundTrip(n) == Call1(W_char2int, Call1(W_int2char, Decimal(n)))

\* (integer->char (char->integer c))
CharRoundTrip(c) == Call1(W_int2char, Call1(W_char2int, c))

\* character literals, each with its code
CharLiterals ==
    {[text |-> T_charA, code |-> 65],
     [text |-> << "#", "\\", "z" >>, code |-> 122],
     [text |-> << "#", "\\", "0" >>, code |-> 48],
     [text |-> << "#", "\\", ";" >>, code |-> 59],
     [text |-> << "#", "\\", "s", "p", "a", "c", "e" >>, code |-> 32],
     [text |-> << "#", "\\", "n", "e", "w", "l", "i", "n", "e" >>, code |-> 10],
     [text |-> << "#", "\\", "t", "a", "b" >>, code |-> 9]}

ConversionPrograms ==
    {CodeRoundTrip(n) : n \in CharCodes}
    \cup {CharRoundTrip(c.text) : c \in CharLiterals}
    \cup {Call1(W_int2char, Decimal(n)) : n \in {0, 65, MaxCharCode}}
    \cup {Call1(W_char2int, c.text) : c \in CharLiterals}

\* (op (let (x a) x) b), (op (car (cons a 9)) b) and (op a b): arithmetic
\* whose left operand is a let, reads a pair, or is a literal, each with the
\* integer it denotes
LeftOperandCases(a, b) ==
    UNION {{[text |-> Call2(o.text, LetText(X, Decimal(a), X), Decimal(b)),
             value |-> o.value],
            [text |-> Call2(o.text,
                            Call1(W_car, Call2(W_cons, Decimal(a), Decimal(9))),
                            Decimal(b)),
             value |-> o.value],
            [text |-> Call2(o.text, Decimal(a), Decimal(b)),
             value |-> o.value],
            [text |-> Call2(o.text, Decimal(a), LetText(X, Decimal(b), X)),
             value |-> o.value]} :
           o \in {[text |-> << "+" >>, value |-> a + b],
                  [text |-> << "-" >>, value |-> a - b],
                  [text |-> << "*" >>, value |-> a * b]}}

LeftOperandOperands == {<<5, 3>>, <<1, 2>>, <<2, 2>>}

BinaryOperandCases ==
    UNION {LeftOperandCases(ab[1], ab[2]) : ab \in LeftOperandOperands}

BinaryOperandPrograms == {c.text : c \in BinaryOperandCases}

\* (+ (let (x 5) x) 3)
LetPlusExample == Call2(<< "+" >>, LetText(X, Decimal(5), X), Decimal(3))

\* (let (x 1) (if test consequent alternate)): the if is emitted at stack
\* index -8 under the binding of x; the consequent loads the literal 2 and
\* the alternate the literal 4, each spilling it to its current slot
ArmSum(n) == Call2(<< "+" >>, X, Decimal(n))

ArmPair(n) == Call2(W_cons, Decimal(n), X)

PairTest == Call1(W_car, Call2(W_cons, Decimal(0), Decimal(0)))

IfUnderLet(t, c, a) == LetText(X, Decimal(1), IfText(t, c, a))

IfArmPrograms ==
    {IfUnderLet(t, c, a) :
         t \in {T_true, T_false, Decimal(0), PairTest},
         c \in {ArmSum(2), ArmPair(2)},
         a \in {ArmSum(4), ArmPair(4)}}

\* the init expression of a let refers to the name the let binds
\* (let (x 1) (let (x (+ x 2)) x)) would nest a let in a body; the forms
\* below keep the inner let out of any let body
InitSeesOuter(a, b) ==
    LetText(X, Decimal(a), LetText(X, Infix(X, << "+" >>, Decimal(b)), X))

InitPrograms ==
    {LetText(X, X, Decimal(1)),
     LetText(X, X, X),
     LetText(X, Call1(W_add1, X), X),
     LetText(X, LetText(X, Decimal(1), X), X),
     LetText(X, LetText(Y, Decimal(1), X), X),
     LetText(Y, LetText(X, Decimal(1), X), X),
     LetText(X, LetText(Y, Decimal(2), Y), Infix(X, << "+" >>, X))}
    \cup {InitSeesOuter(a, b) : a \in Fixnums, b \in Fixnums}

\* constant subtrees inside trees that need the run
FoldPrograms ==
    {LetText(X, SumOfProduct(1, 2, 3),
             Infix(X, << "+" >>, LP \o MulInfix(4, 5) \o RP)),
     IfText(Call1(W_zero_p, Call1(W_sub1, Decimal(1))),
            Call2(<< "+" >>, Decimal(1), Decimal(2)), MulPrefix(2, 3)),
     Call2(W_cons, Call2(<< "+" >>, Decimal(1), Decimal(2)),
           Call1(W_add1, Decimal(3))),
     Call1(W_cdr, Call2(W_cons, Decimal(1), ChainedMinus(9, 2, 3))),
     LetText(X, Decimal(1),
             Call2(<< "+" >>, Call1(W_add1, X), Call1(W_add1, Decimal(1))))}

\* an if in the test and in both arms of another if
NestedIfExample ==
    IfText(IfText(T_true, T_false, T_true),
           IfText(T_false, Decimal(1), Decimal(2)),
           IfText(T_true, Decimal(3), Decimal(4)))

\* the largest number of if nodes whose labels fit the table
MaxIfs == MaxLabels \div 2

\* n ifs as a balanced tree: the n - 1 ifs below the outermost one are
\* shared out between its test, its consequent and its alternate
RECURSIVE IfTree(_)
IfTree(n) ==
    IF n = 0 THEN Decimal(1)
    ELSE IfText(IfTree((n - 1) \div 3), IfTree(n \div 3), IfTree((n + 1) \div 3))

\* n ifs as the sum of four balanced trees
IfSum(n) ==
    Infix(Infix(IfTree(n \div 4), << "+" >>, IfTree((n + 1) \div 4)),
          << "+" >>,
          Infix(IfTree((n + 2) \div 4), << "+" >>, IfTree((n + 3) \div 4)))

AtCapacity == IfSum(MaxIfs)

PastCapacity == IfSum(MaxIfs + 1)

\* one if past the capacity, with an unbound name as the operand that is
\* emitted first
PastCapacityUnbound == Infix(IfSum(MaxIfs + 1), << "+" >>, X)

\* programs whose labels fill the table exactly, fall one if short of it, and
\* overflow it by one if
CapacityPrograms ==
    {AtCapacity, PastCapacity, PastCapacityUnbound, IfSum(MaxIfs - 1)}

\* ifs side by side and inside one another
LabelPrograms ==
    {NestedIfExample,
     Call2(<< "+" >>, IfText(T_true, Decimal(1), Decimal(2)),
           IfText(T_false, Decimal(3), Decimal(4))),
     Call2(W_cons, IfText(T_true, Decimal(1), Decimal(2)),
           IfText(T_true, IfText(T_false, Decimal(3), Decimal(4)), Decimal(5))),
     LetText(X, IfText(T_false, Decimal(1), Decimal(2)),
             IfText(Call1(W_zero_p, X), X, Call1(W_add1, X)))}

Programs ==
    ConstantPrograms \cup MulPrograms \cup IfPrograms \cup ShadowPrograms
    \cup PairPrograms \cup InfixPrograms \cup MixedPrograms
    \cup LetBodyPrograms \cup WrappedPrograms \cup TrailingPrograms
    \cup CallPrograms \cup UnlexablePrograms \cup ScopePrograms
    \cup BoundPairPrograms \cup ComparisonPrograms
    \cup ConversionPrograms \cup BinaryOperandPrograms
    \cup IfArmPrograms \cup InitPrograms \cup FoldPrograms
    \cup LabelPrograms \cup CapacityPrograms \cup GroupPrograms
    \cup NotPairPrograms

Init ==
    /\ input \in Programs
    /\ compilation_mode \in {MODE_RTE, MODE_CTE}
    /\ pc = "lex"
    /\ err = ""
    /\ tokens = << >>
    /\ ast = NoExpr
    /\ out = << >>
    /\ gen = GenInit
    /\ machine = InitialMachine
    /\ status = 0

Spec == Init /\ [][Next]_vars

\* the process and the run of its output are both over
Done == pc \in {"exited", "aborted", "crashed"}

\* the parser has returned or exited
AfterParse == pc \notin {"lex", "parse"}

\* the word in %ebx at the exit system call
ExitValue == machine.regs.ebx

\* the word a unit compiled from expr alone leaves in %ebx
ValueAlone(expr, mode) ==
    RunFrom(emit_program(expr, mode, "benign").code, InitialMachine, 0).ebx


(***************************************************************************)
(* Properties.                                                             *)
(***************************************************************************)
Fix(n) == expr_fixnum(n)

Var(name) == expr_variable(name)

Plus(l, r) == expr_binary_prim("PRIM_PLUS", l, r)

Minus(l, r) == expr_binary_prim("PRIM_MINUS", l, r)

Times(l, r) == expr_binary_prim("PRIM_MULTIPLY", l, r)

\* the integer an arithmetic expression over fixnum literals denotes
RECURSIVE Denote(_)
Denote(e) ==
    IF e.type = "EXPR_FIXNUM" THEN e.value
    ELSE IF e.op = "PRIM_PLUS" THEN Denote(e.operand1) + Denote(e.operand2)
    ELSE IF e.op = "PRIM_MINUS" THEN Denote(e.operand1) - Denote(e.operand2)
    ELSE Denote(e.operand1) * Denote(e.operand2)

\* C1: for every constant-only expression, the unit emitted in Direct mode
\* leaves at exit the same tagged value as the unit emitted in Fold mode.
ModesAgreeOnConstants ==
    (pc = "exited" /\ compilation_mode = MODE_RTE /\ is_constant_expr(ast))
        => ExitValue = ValueAlone(ast, MODE_CTE)

IsProduct(e) ==
    /\ e.type = "EXPR_BINARY_PRIM"
    /\ e.op = "PRIM_MULTIPLY"
    /\ e.operand1.type = "EXPR_FIXNUM"
    /\ e.operand2.type = "EXPR_FIXNUM"

\* C2: for fixnums a and b whose product is in the fixnum range, a * b and
\* (* a b) leave the tagged product (a * b) << 2 at exit, in both modes.
MultiplyYieldsTaggedProduct ==
    (pc = "exited" /\ IsProduct(ast)
        /\ ast.operand1.value * ast.operand2.value \in FixnumMin..FixnumMax)
        => ExitValue = 4 * (ast.operand1.value * ast.operand2.value)

\* the conditional jump of an if is taken exactly when %eax holds 0x1F
JumpIffFalseTag ==
    (pc = "run" /\ out[machine.ip].op = "je")
        => ((machine'.ip = LabelAt(out, out[machine.ip].src.n))
                <=> (machine.regs.eax = 31))

\* the value of an if is the value of the alternate when its test leaves
\* 0x1F, and the value of the consequent otherwise
IfYieldsBranchTaken ==
    (Done /\ ast.type = "EXPR_IF")
        => /\ pc = "exited"
           /\ ExitValue =
                 IF ValueAlone(ast.test, compilation_mode) = 31
                 THEN ValueAlone(ast.alternate, compilation_mode)
                 ELSE ValueAlone(ast.consequent, compilation_mode)

\* C3: an if takes its alternate branch if and only if the value its test
\* leaves is the false tag 0x1F; every other value (fixnum zero, #t, a
\* character, the empty list) takes the consequent; the value at exit is the
\* value of the branch taken.
IfBranchesOnFalseTag == [][JumpIffFalseTag]_vars /\ []IfYieldsBranchTaken

\* C3 happens: fixnum zero as the test has taken the consequent, 1
IfZeroTakesConsequent ==
    /\ pc = "exited"
    /\ input = IfText(Decimal(0), Decimal(1), Decimal(2))
    /\ ExitValue = 4

\* C4: in (let (x a) (let (x b) body)) a reference to x in the inner body
\* is b, and a reference to x in the outer body, before or after the inner
\* let as the other operand of a binary primitive, is a.
ShadowingResolvesNearest ==
    \A a \in Fixnums, b \in Fixnums :
        /\ (Done /\ input = ShadowInner(a, b))
              => (pc = "exited" /\ ExitValue = 4 * b)
        /\ (Done /\ input \in {ShadowBefore(a, b), ShadowAfter(a, b)})
              => (pc = "exited" /\ ExitValue = 4 * (a + b))

\* the component that car or cdr selects from (cons a b)
Selected(e) ==
    IF e.type = "EXPR_CAR" THEN e.pair.car_expr ELSE e.pair.cdr_expr

\* C5: (car (cons a b)) is the value of a and (cdr (cons a b)) the value of
\* b, for literal, arithmetic, let, if and nested cons components.
CarCdrInvertCons ==
    (Done /\ ast.type \in {"EXPR_CAR", "EXPR_CDR"}
          /\ ast.pair.type = "EXPR_CONS"
          /\ Selected(ast).type # "EXPR_CONS")
        => /\ pc = "exited"
           /\ ExitValue = ValueAlone(Selected(ast), compilation_mode)

\* C6: * binds tighter than + and -, all three associate to the left, a
\* parenthesized group overrides precedence; 2 + 3 * 4 leaves 56 and
\* (10 + 5) * 2 + 3 leaves 132 in both modes.
InfixPrecedence ==
    /\ \A a \in Fixnums, b \in Fixnums, c \in Fixnums :
          /\ (AfterParse /\ input = SumOfProduct(a, b, c))
                => ast = Plus(Fix(a), Times(Fix(b), Fix(c)))
          /\ (AfterParse /\ input = ChainedMinus(a, b, c))
                => ast = Minus(Minus(Fix(a), Fix(b)), Fix(c))
          /\ (AfterParse /\ input = ProductPlus(a, b, c))
                => ast = Plus(Times(Fix(a), Fix(b)), Fix(c))
          /\ (AfterParse /\ input = GroupTimes(a, b, c))
                => ast = Times(Plus(Fix(a), Fix(b)), Fix(c))
    /\ (AfterParse /\ input = GroupingExample)
          => ast = Plus(Times(Plus(Fix(10), Fix(5)), Fix(2)), Fix(3))
    /\ (Done /\ input \in InfixPrograms)
          => (pc = "exited" /\ ExitValue = 4 * Denote(ast))
    /\ (Done /\ input = PrecedenceExample) => ExitValue = 56
    /\ (Done /\ input = GroupingExample) => ExitValue = 132

\* C6 happens: 2 + 3 * 4 has run to its exit with 56
PrecedenceExampleExits ==
    /\ pc = "exited"
    /\ input = PrecedenceExample
    /\ ast = Plus(Fix(2), Times(Fix(3), Fix(4)))
    /\ ExitValue = 56

\* C7: a prefix form with an infix operator among its arguments, such as
\* (+ 2 3 * 4), is a fatal syntax error and no AST is produced for it.
MixedFormRejected ==
    (AfterParse /\ input \in MixedPrograms)
        => (pc = "aborted" /\ ast = NoExpr /\ out = << >>)

ExprOf(e) == parse_expr(Tokenize(e, 1).toks, 1).expr

\* C9: "return e;", "return e", "e;" and "e" give the AST of e, and a token
\* left after the expression and its optional ";" (or a second "return") is
\* a fatal error.
ProgramWrapping ==
    /\ \A e \in BaseTexts :
          (AfterParse /\ input \in {e, Returned(e), Terminated(e),
                                    Terminated(Returned(e))})
              => (ast = ExprOf(e) /\ ast # NoExpr /\ err = "")
    /\ (AfterParse /\ input \in TrailingPrograms)
          => (pc = "aborted" /\ ast = NoExpr /\ err # "" /\ out = << >>)

\* C9 happens: "return 1;" has been parsed to the AST of "1", and a program
\* with a leftover token has been refused at the end-of-input test
ReturnFormParsed ==
    /\ pc = "emit"
    /\ input = Terminated(Returned(Decimal(1)))
    /\ ast = Fix(1)

BinaryNames == {"+", "-", "*", "=", "<", ">", "<=", ">=", "char=?", "char<?"}

\* the node an identifier in call position resolves to, "NONE" for an
\* unknown primitive
Resolution(name) ==
    CASE name = "let" -> "EXPR_LET"
      [] name = "if" -> "EXPR_IF"
      [] name = "cons" -> "EXPR_CONS"
      [] name = "car" -> "EXPR_CAR"
      [] name = "cdr" -> "EXPR_CDR"
      [] name \in UnaryNames -> "EXPR_UNARY_PRIM"
      [] name \in BinaryNames -> "EXPR_BINARY_PRIM"
      [] OTHER -> "NONE"

\* ( name 1 2 ) as the lexer would deliver it if name were one identifier
CallTokens(name) ==
    << Tok("TOK_LPAREN"), Id(name), Num(1), Num(2), Tok("TOK_RPAREN") >>

\* C10: an identifier after "(" is resolved as a special form (let, if,
\* cons, car, cdr), else as a unary primitive name, else as a binary
\* primitive name by exact match; any other identifier is the fatal
\* unknown-primitive error and no AST is returned.
IdentifierCallResolution ==
    /\ (AfterParse /\ input \in CallPrograms)
          => IF Resolution(tokens[2].identifier) = "NONE"
             THEN pc = "aborted" /\ err = "UnknownPrimitive" /\ ast = NoExpr
             ELSE /\ ast.type = Resolution(tokens[2].identifier)
                  /\ err # "UnknownPrimitive"
    /\ \A name \in BinaryNames :
          parse_primary(CallTokens(name), 1).expr
              = expr_binary_prim(try_parse_binary_prim(name), Fix(1), Fix(2))
    /\ \A name \in {"plus", "char=", "<=>", "add"} :
          parse_primary(CallTokens(name), 1).err = "UnknownPrimitive"

\* C10 happens: (foo 1) has been refused as an unknown primitive
UnknownPrimitiveRefused ==
    /\ pc = "aborted"
    /\ err = "UnknownPrimitive"
    /\ input = Call1(<< "f", "o", "o" >>, Decimal(1))

\* the code generator has returned or exited
AfterCompile == pc \notin {"lex", "parse", "emit"}

\* e holds a variable that no enclosing let body binds; bound is the set of
\* names bound by the let bodies around e
RECURSIVE Unbound(_, _)
Unbound(e, bound) ==
    CASE e.type = "EXPR_VARIABLE" -> e.name \notin bound
      [] e.type = "EXPR_UNARY_PRIM" -> Unbound(e.operand, bound)
      [] e.type = "EXPR_BINARY_PRIM" ->
            Unbound(e.operand1, bound) \/ Unbound(e.operand2, bound)
      [] e.type = "EXPR_LET" ->
            Unbound(e.init, bound) \/ Unbound(e.body, bound \cup {e.name})
      [] e.type = "EXPR_IF" ->
            \/ Unbound(e.test, bound)
            \/ Unbound(e.consequent, bound)
            \/ Unbound(e.alternate, bound)
      [] e.type = "EXPR_CONS" ->
            Unbound(e.car_expr, bound) \/ Unbound(e.cdr_expr, bound)
      [] e.type \in {"EXPR_CAR", "EXPR_CDR"} -> Unbound(e.pair, bound)
      [] OTHER -> FALSE

\* C11: code generation aborts, in both modes, exactly when the tree holds a
\* variable that no enclosing let body binds, and then with the undefined
\* variable error; a bound variable resolves to its innermost binding.
UnboundVariableAborts ==
    /\ (AfterCompile /\ input \in ScopePrograms \cup ShadowPrograms)
          => /\ (pc = "aborted") <=> Unbound(ast, {})
             /\ (pc = "aborted") => (err = "UndefinedVariable")
    /\ \A a \in Fixnums, b \in Fixnums :
          (pc = "exited" /\ input = ShadowInner(a, b)) => ExitValue = 4 * b

\* C12: when code generation aborts on an undefined variable, nothing has
\* been written to the output sink.
NoPartialOutput ==
    (pc = "aborted" /\ ast # NoExpr /\ err = "UndefinedVariable")
        => out = << >>

\* the literal node kind a type predicate is meant to recognise
Recognises(op) ==
    CASE op = "PRIM_INTEGER_P" -> "EXPR_FIXNUM"
      [] op = "PRIM_BOOLEAN_P" -> "EXPR_BOOLEAN"
      [] op = "PRIM_CHAR_P" -> "EXPR_CHARACTER"
      [] op = "PRIM_NULL_P" -> "EXPR_EMPTY_LIST"

\* the tree is a type predicate applied to a literal
IsTypeTest(e) ==
    /\ e.type = "EXPR_UNARY_PRIM"
    /\ e.op \in {"PRIM_INTEGER_P", "PRIM_BOOLEAN_P", "PRIM_CHAR_P",
                 "PRIM_NULL_P"}
    /\ e.operand.type \in {"EXPR_FIXNUM", "EXPR_BOOLEAN", "EXPR_CHARACTER",
                           "EXPR_EMPTY_LIST"}

\* C13: integer?, boolean?, char? and null? applied to a literal leave #t
\* (0x3F) when the predicate is the one of the literal's type and #f (0x1F)
\* otherwise, so exactly one of the four holds of each literal, in both modes.
TypePredicatesPartition ==
    (Done /\ IsTypeTest(ast))
        => /\ pc = "exited"
           /\ ExitValue = IF Recognises(ast.op) = ast.operand.type
                          THEN 63 ELSE 31

Comparisons ==
    {"PRIM_EQUALS", "PRIM_LESS", "PRIM_GREATER", "PRIM_LESS_EQUAL",
     "PRIM_GREATER_EQUAL", "PRIM_CHAR_EQUAL", "PRIM_CHAR_LESS"}

\* l op r
Holds(op, l, r) ==
    CASE op \in {"PRIM_EQUALS", "PRIM_CHAR_EQUAL"} -> l = r
      [] op \in {"PRIM_LESS", "PRIM_CHAR_LESS"} -> l < r
      [] op = "PRIM_GREATER" -> l > r
      [] op = "PRIM_LESS_EQUAL" -> l <= r
      [] op = "PRIM_GREATER_EQUAL" -> l >= r

\* the tree is a comparison of two fixnum literals
IsComparison(e) ==
    /\ e.type = "EXPR_BINARY_PRIM"
    /\ e.op \in Comparisons
    /\ e.operand1.type = "EXPR_FIXNUM"
    /\ e.operand2.type = "EXPR_FIXNUM"

\* C14: in Direct mode the code of a comparison compares the left operand
\* with the slot the right operand was spilled to, in the direction l op r:
\* it leaves the true boolean when l op r holds and the false boolean
\* otherwise.
ComparisonDirection ==
    (Done /\ compilation_mode = MODE_RTE /\ IsComparison(ast))
        => /\ pc = "exited"
           /\ ExitValue =
                 IF Holds(ast.op, ast.operand1.value, ast.operand2.value)
                 THEN 63 ELSE 31

\* C15: in (let (p (cons a b)) body) every (car p) of the body is a and
\* every (cdr p) is b, whatever the body spills in between;
\* (let (p (cons 10 20)) (+ (car p) (cdr p))) leaves 120.
BoundPairSurvivesBody ==
    /\ \A c \in BoundPairCases :
          (Done /\ input = c.text) => (pc = "exited" /\ ExitValue = 4 * c.value)
    /\ (Done /\ input = PairSumExample) => ExitValue = 120

\* C16: each documented comparison spelling =, <, >, <=, >=, char=?, char<?
\* is accepted in call position: (op a b) with literal a and b is tokenized
\* and parsed into a binary primitive node carrying that operator.
ComparisonSpellingsAccepted ==
    \A c \in ComparisonSpellings :
        /\ (AfterParse /\ input = ComparisonCall(c, Decimal(1), Decimal(2)))
              => ast = expr_binary_prim(c.op, Fix(1), Fix(2))
        /\ (AfterParse /\ input = ComparisonCall(c, T_charA, T_charA))
              => ast = expr_binary_prim(c.op, expr_character(65),
                                        expr_character(65))

\* C17: integer->char and char->integer are mutually inverse re-taggings:
\* (char->integer (integer->char n)) leaves the tagged fixnum n for every
\* code n in 0..127 and (integer->char (char->integer c)) leaves the tagged
\* character c, in Direct and in Fold mode alike; each conversion alone
\* leaves the re-tagged word.
ConversionsInvert ==
    /\ \A n \in CharCodes :
          (Done /\ input = CodeRoundTrip(n))
              => (pc = "exited" /\ ExitValue = 4 * n)
    /\ \A c \in CharLiterals :
          /\ (Done /\ input = CharRoundTrip(c.text))
                => (pc = "exited" /\ ExitValue = 256 * c.code + char_tag)
          /\ (Done /\ input = Call1(W_char2int, c.text))
                => (pc = "exited" /\ ExitValue = 4 * c.code)
    /\ \A n \in {0, 65, MaxCharCode} :
          (Done /\ input = Call1(W_int2char, Decimal(n)))
              => (pc = "exited" /\ ExitValue = 256 * n + char_tag)

\* C17 happens: (char->integer (integer->char 65)) has run to its exit in
\* Direct mode, through the emitted shifts, and left the fixnum 65
CodeRoundTripExits ==
    /\ pc = "exited"
    /\ compilation_mode = MODE_RTE
    /\ input = CodeRoundTrip(65)
    /\ \E k \in 1..Len(out) : out[k].op = "shrl"
    /\ ExitValue = 260

\* C18: extending the environment for a let never invalidates the parent
\* chain: no entry is read after its release, none is released twice, and a
\* completed emit_program run has released every entry it allocated.
EnvironmentEntriesSafe ==
    (AfterCompile /\ ast # NoExpr)
        => /\ ~gen.uaf
           /\ ~gen.dfree
           /\ (pc # "aborted") => (gen.freed = 1..gen.allocated)

\* the unit has just been written
JustCompiled == pc = "run" /\ machine.ip = 1

\* C19: for every node kind and every incoming stack index si, emit_expr
\* returns exactly si.
StackIndexRestored ==
    JustCompiled
        => \A si \in {0 - 4, 0 - 8, 0 - 40} :
              emit_expr(ast, si, env_create, GenInit, compilation_mode,
                        "benign").si = si

\* the tree is a unary predicate applied to some operand
IsPredicate(e) ==
    /\ e.type = "EXPR_UNARY_PRIM"
    /\ e.op \in {"PRIM_ZERO_P", "PRIM_NULL_P", "PRIM_INTEGER_P",
                 "PRIM_BOOLEAN_P", "PRIM_CHAR_P"}

\* what the predicate tests, on the tagged word v of its operand
Tested(op, v) ==
    CASE op = "PRIM_ZERO_P" -> v = 0
      [] op = "PRIM_NULL_P" -> v = empty_list_tag
      [] op = "PRIM_INTEGER_P" -> v % 4 = 0
      [] op = "PRIM_BOOLEAN_P" -> v \in {bool_tag, bool_tag + 32}
      [] op = "PRIM_CHAR_P" -> v % 256 = char_tag

\* C20: in Direct mode every unary predicate and every comparison leaves a
\* canonical boolean, 0x3F when the tested condition holds and 0x1F when it
\* does not, whatever the input value.
DirectBooleansCanonical ==
    /\ (pc = "exited" /\ compilation_mode = MODE_RTE /\ IsPredicate(ast))
          => /\ ExitValue \in {31, 63}
             /\ (ExitValue = 63)
                   <=> Tested(ast.op, ValueAlone(ast.operand, MODE_RTE))
    /\ (pc = "exited" /\ compilation_mode = MODE_RTE /\ IsComparison(ast))
          => ExitValue \in {31, 63}

\* C21: in Direct mode the code of (op left right) with op among +, -, *
\* combines the left operand with the slot the right operand was spilled to,
\* whatever kind of node the left operand is, so it leaves left op right;
\* (+ (let (x 5) x) 3) leaves 32.
ArithmeticReadsSpilledRight ==
    /\ \A c \in BinaryOperandCases :
          (Done /\ compilation_mode = MODE_RTE /\ input = c.text)
              => (pc = "exited" /\ ExitValue = 4 * c.value)
    /\ (Done /\ compilation_mode = MODE_RTE /\ input = LetPlusExample)
          => ExitValue = 32

\* the slot of the store that follows the load of the literal n: the stack
\* index the subtree that spills n was emitted with
SlotOf(n) ==
    LET k == CHOOSE k \in 1..(Len(out) - 1) :
                 /\ out[k] = Ins("movl", Imm(4 * n), Reg("eax"))
                 /\ out[k + 1].op = "movl"
                 /\ out[k + 1].dst.k = "mem"
    IN  out[k + 1].dst.n

\* how many times the unit loads the variable bound at the slot
LoadsOf(slot) ==
    Cardinality({k \in 1..Len(out) :
                    out[k] = Ins("movl", Mem("esp", slot), Reg("eax"))})

\* C22: the consequent and the alternate of an if are emitted with the
\* stack index and the environment the if itself received, whatever the
\* test and the consequent contain.
IfArmsShareIndex ==
    (JustCompiled /\ input \in IfArmPrograms)
        => /\ SlotOf(2) = 0 - 8
           /\ SlotOf(4) = 0 - 8
           /\ LoadsOf(0 - 4) = 2

\* the position of the first load of the variable bound at the slot
FirstLoad(slot) ==
    CHOOSE k \in 1..Len(out) : out[k] = Ins("movl", Mem("esp", slot), Reg("eax"))

\* lets whose init refers to a name that only the let itself, or a let
\* inside the init, binds
InitUnboundPrograms ==
    {LetText(X, X, Decimal(1)),
     LetText(X, X, X),
     LetText(X, Call1(W_add1, X), X),
     LetText(X, LetText(Y, Decimal(1), X), X)}

\* C23: the init of (let (x init) body) is emitted under the enclosing
\* environment: x inside init is the outer binding of x when there is one
\* and the fatal undefined-variable error otherwise; only the body sees the
\* new binding, which is not visible after the let either.
InitUnderEnclosingEnvironment ==
    /\ (AfterCompile /\ input \in InitUnboundPrograms)
          => (pc = "aborted" /\ err = "UndefinedVariable")
    /\ (AfterCompile /\ input = LetText(Y, LetText(X, Decimal(1), X), X))
          => (pc = "aborted" /\ err = "UndefinedVariable")
    /\ \A a \in Fixnums, b \in Fixnums :
          /\ (AfterCompile /\ input = InitSeesOuter(a, b))
                => /\ err # "UndefinedVariable"
                   /\ LoadsOf(0 - 4) = 1
                   /\ LoadsOf(0 - 8) = 1
                   /\ FirstLoad(0 - 4) < FirstLoad(0 - 8)
          /\ (pc = "exited" /\ input = InitSeesOuter(a, b))
                => ExitValue = 4 * (a + b)
    /\ (pc = "exited" /\ input = LetText(X, LetText(X, Decimal(1), X), X))
          => ExitValue = 4

\* C23 happens: (let (x 1) (let (x x + 2) x)) has run to its exit, the init
\* having read the outer x and the body the inner one
InitReadsOuterBinding ==
    /\ pc = "exited"
    /\ input = InitSeesOuter(1, 2)
    /\ FirstLoad(0 - 4) < FirstLoad(0 - 8)
    /\ ExitValue = 12

\* e is built of literals and primitive applications only
RECURSIVE PurelyConstant(_)
PurelyConstant(e) ==
    CASE e.type \in {"EXPR_FIXNUM", "EXPR_BOOLEAN", "EXPR_CHARACTER",
                     "EXPR_EMPTY_LIST"} -> TRUE
      [] e.type = "EXPR_UNARY_PRIM" -> PurelyConstant(e.operand)
      [] e.type = "EXPR_BINARY_PRIM" ->
            PurelyConstant(e.operand1) /\ PurelyConstant(e.operand2)
      [] OTHER -> FALSE

\* the number of maximal purely constant subtrees of e
RECURSIVE ConstantSubtrees(_)
ConstantSubtrees(e) ==
    IF PurelyConstant(e) THEN 1
    ELSE CASE e.type = "EXPR_UNARY_PRIM" -> ConstantSubtrees(e.operand)
           [] e.type = "EXPR_BINARY_PRIM" ->
                 ConstantSubtrees(e.operand1) + ConstantSubtrees(e.operand2)
           [] e.type = "EXPR_LET" ->
                 ConstantSubtrees(e.init) + ConstantSubtrees(e.body)
           [] e.type = "EXPR_IF" ->
                 ConstantSubtrees(e.test) + ConstantSubtrees(e.consequent)
                     + ConstantSubtrees(e.alternate)
           [] e.type = "EXPR_CONS" ->
                 ConstantSubtrees(e.car_expr) + ConstantSubtrees(e.cdr_expr)
           [] e.type \in {"EXPR_CAR", "EXPR_CDR"} -> ConstantSubtrees(e.pair)
           [] OTHER -> 0

\* the positions of the unit between the prologue and the exit trailer
Body == 2..(Len(out) - 3)

IsImmediateLoad(i) == i.op = "movl" /\ i.src.k = "imm" /\ i.dst = Reg("eax")

\* C24: in Fold mode a purely constant tree is emitted as exactly one
\* immediate load, with no label allocated and no stack slot written; a tree
\* that holds a variable, let, if, cons, car or cdr is not folded as a whole,
\* and each maximal purely constant subtree inside it is one immediate load.
ConstantSubtreesFolded ==
    (JustCompiled /\ compilation_mode = MODE_CTE)
        => /\ PurelyConstant(ast)
                 => /\ Len(out) = 5
                    /\ IsImmediateLoad(out[2])
                    /\ gen.labels = 0
           /\ ~PurelyConstant(ast) => Len(out) > 5
           /\ Cardinality({k \in Body : IsImmediateLoad(out[k])})
                 = ConstantSubtrees(ast)
           /\ \A k \in Body :
                 out[k].op \in {"addl", "subl", "imull", "sall", "sarl",
                                "shrl", "sete", "setl", "setg", "setle",
                                "setge"}
                     => ~PurelyConstant(ast)

\* C24 happens: 2 + 3 * 4 has been folded to the single load of 56
SumFoldedToOneLoad ==
    /\ JustCompiled
    /\ compilation_mode = MODE_CTE
    /\ input = PrecedenceExample
    /\ out[2] = Ins("movl", Imm(56), Reg("eax"))
    /\ Len(out) = 5

\* the number of if nodes of e
RECURSIVE IfCount(_)
IfCount(e) ==
    CASE e.type = "EXPR_UNARY_PRIM" -> IfCount(e.operand)
      [] e.type = "EXPR_BINARY_PRIM" ->
            IfCount(e.operand1) + IfCount(e.operand2)
      [] e.type = "EXPR_LET" -> IfCount(e.init) + IfCount(e.body)
      [] e.type = "EXPR_IF" ->
            1 + IfCount(e.test) + IfCount(e.consequent) + IfCount(e.alternate)
      [] e.type = "EXPR_CONS" -> IfCount(e.car_expr) + IfCount(e.cdr_expr)
      [] e.type \in {"EXPR_CAR", "EXPR_CDR"} -> IfCount(e.pair)
      [] OTHER -> 0

\* the positions of the unit that place, or jump to, the label
Placements(label) == {k \in 1..Len(out) : out[k] = emit_label(label)}

JumpsTo(label) ==
    {k \in 1..Len(out) : out[k].op \in {"je", "jmp"} /\ out[k].src.n = label}

\* the position of the only line of the unit equal to i
PositionOf(i) == CHOOSE k \in 1..Len(out) : out[k] = i

\* C25: across one unit every label is placed exactly once and is the
\* target of exactly one jump; each if takes two fresh labels from an
\* increasing counter, jumps to the first on a false test, jumps to the
\* second after the consequent, then places the first, emits the alternate
\* and places the second.
LabelsPlacedOnce ==
    JustCompiled
        => /\ gen.labels = 2 * IfCount(ast)
           /\ \A label \in 0..(gen.labels - 1) :
                 /\ Cardinality(Placements(label)) = 1
                 /\ Cardinality(JumpsTo(label)) = 1
           /\ \A k \in 1..Len(out) :
                 out[k].op \in {"je", "jmp", "label"}
                     => out[k].src.n \in 0..(gen.labels - 1)
           /\ \A n \in 0..(IfCount(ast) - 1) :
                 LET L_false == 2 * n
                     L_end   == 2 * n + 1
                 IN  /\ out[PositionOf(emit_je(L_false)) - 1]
                           = Ins("cmpl", Imm(31), Reg("eax"))
                     /\ PositionOf(emit_je(L_false))
                           < PositionOf(emit_jmp(L_end))
                     /\ PositionOf(emit_label(L_false))
                           = PositionOf(emit_jmp(L_end)) + 1
                     /\ PositionOf(emit_label(L_false))
                           < PositionOf(emit_label(L_end))

\* C25 happens: a unit with an if in the test and in both arms of another
\* if has been written with eight labels
NestedIfsLabelled ==
    /\ JustCompiled
    /\ input = NestedIfExample
    /\ gen.labels = 8
    /\ \A label \in 0..7 : Cardinality(Placements(label)) = 1

\* e and every tree below it
RECURSIVE Subtrees(_)
Subtrees(e) ==
    {e} \cup
    CASE e.type = "EXPR_UNARY_PRIM" -> Subtrees(e.operand)
      [] e.type = "EXPR_BINARY_PRIM" ->
            Subtrees(e.operand1) \cup Subtrees(e.operand2)
      [] e.type = "EXPR_LET" -> Subtrees(e.init) \cup Subtrees(e.body)
      [] e.type = "EXPR_IF" ->
            Subtrees(e.test) \cup Subtrees(e.consequent)
                \cup Subtrees(e.alternate)
      [] e.type = "EXPR_CONS" -> Subtrees(e.car_expr) \cup Subtrees(e.cdr_expr)
      [] e.type \in {"EXPR_CAR", "EXPR_CDR"} -> Subtrees(e.pair)
      [] OTHER -> {}

\* an environment that binds every name the enumerated programs use, far
\* above the indexes tried
EveryNameBound ==
    << [name |-> "x", stack_offset |-> 0 - 4, id |-> 1],
       [name |-> "y", stack_offset |-> 0 - 4, id |-> 2],
       [name |-> "p", stack_offset |-> 0 - 4, id |-> 3],
       [name |-> "q", stack_offset |-> 0 - 4, id |-> 4] >>

\* the subtree emitted alone at si
EmittedAt(e, si) ==
    emit_expr(e, si, EveryNameBound, [GenInit EXCEPT !.allocated = 4],
              compilation_mode, "benign")

\* movl %eax, d(%esp) is the only instruction emitted that writes memory
\* (cmpl with a memory operand only reads it)
IsStore(ins) == ins.op = "movl" /\ ins.dst.k = "mem"

\* the slots the code stores to
StoresOf(code) ==
    {code[k].dst.n : k \in {j \in 1..Len(code) : IsStore(code[j])}}

\* r is what emitting a subtree at si gave: no store above si, no greater
\* index returned
Descends(r, si) ==
    /\ r.si <= si
    /\ \A slot \in StoresOf(r.code) : slot <= si

\* whole is what emitting a let at si gave and init what its init alone
\* gave: the binding is spilled to the index the init returned, and nothing
\* after that store writes at or above it
BindingKept(whole, init) ==
    /\ whole.code[Len(init.code) + 1] = Ins("movl", Reg("eax"), Mem("esp", init.si))
    /\ \A k \in (Len(init.code) + 2)..Len(whole.code) :
          IsStore(whole.code[k]) => whole.code[k].dst.n < init.si

IndexesTried == {0 - 8, 0 - 12, 0 - 40}

\* C26: the stack index only moves downward: emit_expr never returns an
\* index greater than the one it received and never emits a store above it,
\* so no store emitted for the body of a let targets the slot of a binding
\* in scope.
StackIndexOnlyDescends ==
    JustCompiled
        => /\ \A slot \in StoresOf(out) : slot <= 0 - 4
           /\ \A e \in Subtrees(ast), si \in IndexesTried :
                 /\ Descends(EmittedAt(e, si), si)
                 /\ e.type = "EXPR_LET"
                       => BindingKept(EmittedAt(e, si), EmittedAt(e.init, si))

\* C26 happens: the unit of (let (x 3) x + 5) spills the binding to -4 and
\* the body's temporary to -8
BodySpillsBelowBinding ==
    /\ JustCompiled
    /\ input = LetInfixBody(3, 5)
    /\ StoresOf(out) = {0 - 4, 0 - 8}
    /\ PositionOf(Ins("movl", Reg("eax"), Mem("esp", 0 - 4)))
          < PositionOf(Ins("movl", Reg("eax"), Mem("esp", 0 - 8)))

\* fatal errors of code generation other than the label table's
OtherFatalErrors == {"UndefinedVariable", "UndefinedBehaviour"}

OpensIdentifierForm(i) ==
    /\ i < Len(tokens)
    /\ tokens[i].type = "TOK_LPAREN"
    /\ tokens[i + 1].type = "TOK_IDENTIFIER"
    /\ ~(i >= 3 /\ tokens[i - 1].type = "TOK_IDENTIFIER"
                /\ tokens[i - 1].identifier = "let"
                /\ tokens[i - 2].type = "TOK_LPAREN")

\* C28: a parenthesized form whose first token is an identifier is never
\* parsed as a grouped expression: (x + 1) and (x) abort with the
\* unknown-primitive error even where x is bound, while a group that starts
\* with a literal or with another "(" is the expression inside it, followed
\* by ")".
IdentifierNeverOpensGroup ==
    AfterParse
        => /\ input \in IdentifierHeadPrograms
                => (pc = "aborted" /\ err = "UnknownPrimitive" /\ ast = NoExpr)
           /\ pc # "aborted"
                => \A i \in 1..Len(tokens) :
                      OpensIdentifierForm(i)
                          => Resolution(tokens[i + 1].identifier) # "NONE"
           /\ \A e \in GroupBodies :
                 input = Grouped(e) => (ast = ExprOf(e) /\ err = "")
           /\ input = BoundInGroup
                => ast = expr_let("x", Fix(1),
                                  expr_binary_prim("PRIM_PLUS", Fix(1),
                                                   expr_variable("x")))
           /\ input = UnclosedGroup
                => (pc = "aborted" /\ err = "UnexpectedToken")

\* C28 happens: (x + 1) in the body of the let that binds x has been refused
BoundIdentifierGroupRefused ==
    /\ pc = "aborted"
    /\ err = "UnknownPrimitive"
    /\ input = LetText(X, Decimal(1), Grouped(Infix(X, << "+" >>, Decimal(1))))
    /\ OpensIdentifierForm(7)

\* the unit that emit_program completed is being run, or its run is over
Assembled == pc \in {"run", "exited", "crashed"}

\* the positions of the unit that hold a jump
Jumps == {k \in 1..Len(out) : out[k].op \in {"je", "jmp"}}

\* the fixed trailer: movl %eax, %ebx; movl $1, %eax; int $0x80
ExitTrailer ==
    << Ins("movl", Reg("eax"), Reg("ebx")), Ins("movl", Imm(1), Reg("eax")),
       Ins("int", Imm(128), None) >>

\* every jump targets a label placed later in the unit, the trailer is
\* emitted once, after all expression code, and a run that reaches it ends
\* with the low byte of the accumulator's value as the exit status
JumpsForwardToTrailer ==
    Assembled
        => /\ \A k \in Jumps :
                 \E t \in (k + 1)..Len(out) : out[t] = emit_label(out[k].src.n)
           /\ SubSeq(out, Len(out) - 2, Len(out)) = ExitTrailer
           /\ {k \in 1..Len(out) : out[k].op = "int"} = {Len(out)}
           /\ pc = "exited"
                 => /\ machine.ip = Len(out)
                    /\ status = machine.regs.ebx % 256

\* C29: executing an emitted program always reaches the exit trailer: every
\* jump targets a label placed later in the unit, the trailer is emitted
\* once, after all expression code, no instruction of the run faults, and
\* the run ends with the accumulator's value as the exit status.
ExecutionReachesTrailer == JumpsForwardToTrailer /\ pc # "crashed"

\* the subtrees of expr on which emit_expr invokes eval_expr in the mode:
\* a subtree taken by the compile-time test, or a literal
RECURSIVE eval_calls(_, _)
eval_calls(expr, mode) ==
    IF mode = MODE_CTE /\ is_constant_expr(expr) THEN {expr}
    ELSE CASE expr.type \in {"EXPR_FIXNUM", "EXPR_BOOLEAN", "EXPR_CHARACTER",
                             "EXPR_EMPTY_LIST"} -> {expr}
           [] expr.type = "EXPR_VARIABLE" -> {}
           [] expr.type = "EXPR_UNARY_PRIM" -> eval_calls(expr.operand, mode)
           [] expr.type = "EXPR_BINARY_PRIM" ->
                 eval_calls(expr.operand2, mode)
                     \cup eval_calls(expr.operand1, mode)
           [] expr.type = "EXPR_LET" ->
                 eval_calls(expr.init, mode) \cup eval_calls(expr.body, mode)
           [] expr.type = "EXPR_IF" ->
                 eval_calls(expr.test, mode)
                     \cup eval_calls(expr.consequent, mode)
                     \cup eval_calls(expr.alternate, mode)
           [] expr.type = "EXPR_CONS" ->
                 eval_calls(expr.car_expr, mode)
                     \cup eval_calls(expr.cdr_expr, mode)
           [] expr.type \in {"EXPR_CAR", "EXPR_CDR"} ->
                 eval_calls(expr.pair, mode)

\* the node kinds eval_expr has no case for
NotEvaluable ==
    {"EXPR_VARIABLE", "EXPR_LET", "EXPR_IF", "EXPR_CONS", "EXPR_CAR",
     "EXPR_CDR"}

\* C30: for every AST the parser produces, in either mode, eval_expr is
\* invoked only on a literal or on a subtree for which is_constant_expr
\* holds: it never evaluates a variable, let, if, cons, car or cdr node, and
\* its unknown-expression-type abort does not happen.
EvalOnlyOnConstants ==
    /\ err # "UnknownExpressionType"
    /\ ast # NoExpr
          => \A mode \in {MODE_RTE, MODE_CTE} :
                \A e \in eval_calls(ast, mode) :
                   /\ is_constant_expr(e)
                   /\ mode = MODE_RTE => ~(e.type \in {"EXPR_UNARY_PRIM",
                                                       "EXPR_BINARY_PRIM"})
                   /\ ~eval_aborts(e)
                   /\ \A n \in Subtrees(e) : n.type \notin NotEvaluable

\* C30 happens: in fold mode (let (x 1) (+ (add1 x) (add1 1))) has been
\* compiled, eval_expr invoked on the literal 1 of the init and on
\* (add1 1), and not on (add1 x)
EvalInvokedBesideVariable ==
    /\ JustCompiled
    /\ compilation_mode = MODE_CTE
    /\ input = LetText(X, Decimal(1),
                       Call2(<< "+" >>, Call1(W_add1, X),
                             Call1(W_add1, Decimal(1))))
    /\ eval_calls(ast, compilation_mode)
          = {Fix(1), expr_unary_prim("PRIM_ADD1", Fix(1))}
    /\ \E k \in 1..Len(out) : out[k] = Ins("movl", Imm(8), Reg("eax"))

=============================================================================
